---- MODULE Spec2Model ----
(***************************************************************************)
(* State-machine model of ntrnghia/get-link-spotify:                       *)
(*   cache.py    FileCache / SpotifyCache / ProxyCache                     *)
(*   proxy.py    fetch_with_proxy_rotation and its validation pool         *)
(*   spotify.py  _search_with_retry / search_spotify_single /              *)
(*               search_spotify / search_songs_concurrent                  *)
(*   workflow.py run_chart_sync and the functions it calls                 *)
(*                                                                         *)
(* The specifications share the variables:                                *)
(*   Spec          one FileCache driven by arbitrary calls and clock ticks *)
(*   SpecThreads   one FileCache called by several threads                 *)
(*   SpecLoad      FileCache.__init__ over the file it finds               *)
(*   SpecSingleton get_spotify_cache called by several threads             *)
(*   SpecProxy     fetch_with_proxy_rotation over a ProxyCache             *)
(*   SpecSingle    search_spotify_single for one chart entry               *)
(*   SpecSearch    search_songs_concurrent over a SpotifyCache             *)
(*   SpecSync      run_chart_sync from entry to return                     *)
(*   SpecDuration  duration_similarity on duration texts and milliseconds  *)
(*   SpecTrending  the trending order of sync_to_playlists                 *)
(*   SpecDisk      one FileCache whose file can stop being writable        *)
(*   SpecFetch     fetch_vietnam_proxies over the answers of its sources   *)
(*   SpecPlaylist  update_playlist on a playlist of the remote side        *)
(*   SpecProxyLive fetch_with_proxy_rotation with its threads going on     *)
(***************************************************************************)
EXTENDS Integers, Sequences, FiniteSets, TLC

VARIABLES
    _cache,          \* FileCache._cache: the dict, as a sequence of items in insertion order
    _pending_writes, \* FileCache._pending_writes
    file,            \* content of cache_file when it holds a JSON object (same shape as _cache)
    fstat,           \* "missing" | "corrupt" | "ok": what is on disk at cache_file
    diskOk,          \* whether open(cache_file, "w") succeeds (IOError otherwise)
    now,             \* datetime.now(), in whole clock units
    obs,             \* the last FileCache call made by the driver: its arguments and what it returned
    setCalls,        \* set() calls since construction, the last flush() call or the last batch_size-th set()
    px,              \* one fetch_with_proxy_rotation call: main thread, pool, futures
    sr,              \* one search_songs_concurrent call: main thread, pool, futures
    sg,              \* one search_spotify_single call: its loop over the queries and retries
    wf,              \* one run_chart_sync call: its position, output and remote activity
    th,              \* threads calling one FileCache: the lock and each thread's position
    gl,              \* the module global _spotify_cache and the threads in get_spotify_cache
    pf,              \* one call of a pure function: its arguments and its result
    ld               \* one FileCache from its construction on: what __init__ and the calls did

cacheVars == <<_cache, _pending_writes, file, fstat, diskOk>>
vars == <<_cache, _pending_writes, file, fstat, diskOk, now, obs, setCalls, px, sr, sg, wf, th, gl, pf, ld>>

(***************************************************************************)
(* Bounds of the model.                                                    *)
(***************************************************************************)
\* FileCache.__init__(batch_size=...): the instance's batch size (CACHE_BATCH_SIZE = 10 by default)
batch_size == 2
\* FileCache.__init__(ttl_minutes=...): the instance's TTL in clock units
ttl_minutes == 1
\* the clock stops advancing here
MaxTime == 3

\* Python's None, and the empty dict {} (the negative-result sentinel)
NoneV == [none |-> TRUE]
EmptyDict == [empty |-> TRUE]
\* Python truthiness of a value (None and {} are falsy)
Truthy(v) == v # NoneV /\ v # EmptyDict

\* A cached_at text that datetime.fromisoformat rejects (or a missing cached_at, read as "")
Malformed == -1

(***************************************************************************)
(* dict[str, Any] with insertion order: a sequence of items                *)
(* [key, value, cached_at]; json.dump / json.load keep the order.          *)
(***************************************************************************)
KeysOf(m) == {m[i].key : i \in 1..Len(m)}
Has(m, k) == k \in KeysOf(m)
Idx(m, k) == CHOOSE i \in 1..Len(m) : m[i].key = k
Lookup(m, k) == m[Idx(m, k)]
\* d[k] = e: replaces in place when k is present, appends otherwise
Put(m, k, e) ==
    IF Has(m, k) THEN [m EXCEPT ![Idx(m, k)] = e] ELSE Append(m, e)
\* del d[k]
Del(m, k) == SelectSeq(m, LAMBDA e : e.key # k)
KeySeq(m) == [i \in 1..Len(m) |-> m[i].key]

\* The FileCache object together with its file, as one value
\* (wrote: whether this call has rewritten the file so far; raised: whether an
\* exception has left the call)
Self ==
    [cache |-> _cache, pending |-> _pending_writes, file |-> file, fstat |-> fstat,
     wrote |-> FALSE, raised |-> FALSE]
Install(s) ==
    /\ _cache' = s.cache
    /\ _pending_writes' = s.pending
    /\ file' = s.file
    /\ fstat' = s.fstat

\* datetime.now().isoformat() and datetime.fromisoformat(): the text of instant t
\* is represented by t itself; every other text is Malformed
isoformat(t) == t
IsIso(text) == text # Malformed

\* _save without its try/except: the IOError of open() leaves the call
_save_unguarded(s) ==
    IF diskOk THEN [s EXCEPT !.file = s.cache, !.fstat = "ok", !.wrote = TRUE]
    ELSE [s EXCEPT !.raised = TRUE]

\* FileCache._save: rewrite the whole file; IOError is swallowed
_save(s) ==
    IF diskOk THEN [s EXCEPT !.file = s.cache, !.fstat = "ok", !.wrote = TRUE] ELSE s

\* FileCache._is_expired at clock t
_is_expired(cached_at, t) ==
    IF IsIso(cached_at) THEN t > cached_at + ttl_minutes ELSE TRUE

\* get that never checks expiry
get_no_expiry(s, key, t) ==
    IF ~Has(s.cache, key) THEN [ret |-> NoneV, self |-> s]
    ELSE [ret |-> Lookup(s.cache, key).value, self |-> s]

\* FileCache.get: [ret, self]
get(s, key, t) ==
    IF ~Has(s.cache, key) THEN [ret |-> NoneV, self |-> s]
    ELSE IF _is_expired(Lookup(s.cache, key).cached_at, t)
         THEN [ret |-> NoneV, self |-> [s EXCEPT !.cache = Del(s.cache, key)]]
         ELSE [ret |-> Lookup(s.cache, key).value, self |-> s]

\* set that persists one call late (> for >=)
set_late(s, key, value, t) ==
    LET s1 == [s EXCEPT !.cache = Put(s.cache, key,
                                      [key |-> key, value |-> value, cached_at |-> isoformat(t)]),
                        !.pending = s.pending + 1]
    IN  IF s1.pending > batch_size
        THEN [_save(s1) EXCEPT !.pending = 0]
        ELSE s1

\* FileCache.set
set(s, key, value, t) ==
    LET s1 == [s EXCEPT !.cache = Put(s.cache, key,
                                      [key |-> key, value |-> value, cached_at |-> isoformat(t)]),
                        !.pending = s.pending + 1]
    IN  IF s1.pending >= batch_size
        THEN [_save(s1) EXCEPT !.pending = 0]
        ELSE s1

\* an exit hook that does nothing
flush_skipped(s) == s

\* FileCache.flush
flush(s) ==
    IF s.pending > 0 THEN [_save(s) EXCEPT !.pending = 0] ELSE s

\* FileCache.get_with_metadata: [ret, self], ret = <<value, cached_at>>
get_with_metadata(s, key, t) ==
    IF ~Has(s.cache, key) THEN [ret |-> <<NoneV, NoneV>>, self |-> s]
    ELSE IF _is_expired(Lookup(s.cache, key).cached_at, t)
         THEN [ret |-> <<NoneV, NoneV>>, self |-> [s EXCEPT !.cache = Del(s.cache, key)]]
         ELSE [ret |-> <<Lookup(s.cache, key).value, Lookup(s.cache, key).cached_at>>,
               self |-> s]

\* FileCache.clear_expired: [ret, self], ret = number of removed entries
clear_expired(s, t) ==
    LET kept == SelectSeq(s.cache, LAMBDA e : ~_is_expired(e.cached_at, t))
        n == Len(s.cache) - Len(kept)
        s1 == [s EXCEPT !.cache = kept]
    IN  [ret |-> n, self |-> IF n > 0 THEN _save(s1) ELSE s1]

\* FileCache.clear
clear(s) == _save([s EXCEPT !.cache = <<>>])

\* FileCache.keys: the unexpired keys, in dict order
keys(s, t) == KeySeq(SelectSeq(s.cache, LAMBDA e : ~_is_expired(e.cached_at, t)))

\* remove_proxy that does not persist
remove_proxy_no_save(s, key) ==
    IF Has(s.cache, key) THEN [s EXCEPT !.cache = Del(s.cache, key)] ELSE s

\* ProxyCache.remove_proxy (key = make_key(ip, port))
remove_proxy(s, key) ==
    IF Has(s.cache, key) THEN _save([s EXCEPT !.cache = Del(s.cache, key)]) ELSE s

(***************************************************************************)
(* Spec: one FileCache (batch_size, ttl_minutes) called by a driver, one   *)
(* call at a time (every method body runs under self._lock), with the      *)
(* clock advancing between calls.                                          *)
(***************************************************************************)
Keys == {"k1", "k2"}
Values == {[v |-> 1], [v |-> 2]}

\* Contents cache_file can have when the process starts (written by an earlier run)
InitFiles ==
    { <<>>,
      <<[key |-> "k1", value |-> [v |-> 1], cached_at |-> 0]>>,
      <<[key |-> "k2", value |-> [v |-> 2], cached_at |-> 0],
        [key |-> "k1", value |-> [v |-> 1], cached_at |-> 0]>> }

\* FileCache.__init__ with _load: a missing or undecodable file gives an empty cache
FileCacheInit(files) ==
    /\ fstat \in {"missing", "corrupt", "ok"}
    /\ file \in (IF fstat = "ok" THEN files ELSE {<<>>})
    /\ _cache = (IF fstat = "ok" THEN file ELSE <<>>)
    /\ _pending_writes = 0
    /\ diskOk = TRUE
    /\ now = 0

NoObs ==
    [op |-> "init", key |-> "", arg |-> NoneV, ret |-> NoneV, at |-> 0, wrote |-> FALSE,
     raised |-> FALSE, prePending |-> 0, preSetCalls |-> 0, preHad |-> FALSE, preAt |-> 0, prevSet |-> NoneV]
PxIdle == [pc |-> "off"]
SrIdle == [pc |-> "off"]
SgIdle == [pc |-> "off"]
WfIdle == [pc |-> "off"]
ThIdle == [pc |-> "off"]
GlIdle == [pc |-> "off"]
PfIdle == [pc |-> "off"]
LdIdle == [pc |-> "off"]
\* the parts of the state a specification does not use
Idle3 == th = ThIdle /\ gl = GlIdle /\ pf = PfIdle /\ ld = LdIdle

Init ==
    /\ FileCacheInit(InitFiles)
    /\ obs = NoObs
    /\ setCalls = 0
    /\ px = PxIdle
    /\ sr = SrIdle
    /\ sg = SgIdle
    /\ wf = WfIdle
    /\ Idle3

\* What the driver records of a call: r = [ret, self]
Observe(op, key, arg, r) ==
    obs' = [op |-> op, key |-> key, arg |-> arg, ret |-> r.ret, at |-> now,
            wrote |-> r.self.wrote,
            raised |-> r.self.raised,
            prePending |-> _pending_writes,
            preSetCalls |-> setCalls,
            preHad |-> Has(_cache, key),
            preAt |-> IF Has(_cache, key) THEN Lookup(_cache, key).cached_at ELSE 0,
            prevSet |-> IF obs.op = "set" /\ obs.key = key /\ obs.at = now
                        THEN obs.arg ELSE NoneV]

Call(op, key, arg, r) ==
    /\ obs.op # "exit"
    /\ Install(r.self)
    /\ Observe(op, key, arg, r)
    /\ setCalls' = (IF op = "flush" \/ (op = "set" /\ setCalls + 1 = batch_size)
                    THEN 0
                    ELSE IF op = "set" THEN setCalls + 1 ELSE setCalls)
    /\ UNCHANGED <<diskOk, now, px, sr, sg, wf, th, gl, pf, ld>>

DoGet == \E k \in Keys : Call("get", k, NoneV, get(Self, k, now))
DoGetWithMetadata ==
    \E k \in Keys : Call("get_with_metadata", k, NoneV, get_with_metadata(Self, k, now))
DoSet ==
    \E k \in Keys, v \in Values :
        Call("set", k, v, [ret |-> NoneV, self |-> set(Self, k, v, now)])
DoFlush == Call("flush", "", NoneV, [ret |-> NoneV, self |-> flush(Self)])
DoClearExpired ==
    LET r == clear_expired(Self, now)
    IN  Call("clear_expired", "", NoneV, [ret |-> [n |-> r.ret], self |-> r.self])
DoClear == Call("clear", "", NoneV, [ret |-> NoneV, self |-> clear(Self)])
DoKeys == Call("keys", "", NoneV, [ret |-> [keys |-> keys(Self, now)], self |-> Self])
DoRemoveProxy ==
    \E k \in Keys : Call("remove_proxy", k, NoneV, [ret |-> NoneV, self |-> remove_proxy(Self, k)])

\* The process exits normally: atexit runs the flush registered in __init__
DoExit == Call("exit", "", NoneV, [ret |-> NoneV, self |-> flush(Self)])

\* datetime.now() advances
Tick ==
    /\ obs.op # "exit"
    /\ now < MaxTime
    /\ now' = now + 1
    /\ UNCHANGED <<cacheVars, obs, setCalls, px, sr, sg, wf, th, gl, pf, ld>>

Next ==
    \/ DoGet
    \/ DoGetWithMetadata
    \/ DoSet
    \/ DoFlush
    \/ DoClearExpired
    \/ DoClear
    \/ DoKeys
    \/ DoRemoveProxy
    \/ DoExit
    \/ Tick

Spec == Init /\ [][Next]_vars

(***************************************************************************)
(* SpecDisk: the driver calling get, set, flush, clear and remove_proxy on  *)
(* a cache file that stops and starts being writable between calls         *)
(* (open(cache_file, "w") raising IOError), the clock standing still.      *)
(***************************************************************************)
DiskChange ==
    /\ diskOk' = ~diskOk
    /\ UNCHANGED <<_cache, _pending_writes, file, fstat, now, obs, setCalls, px, sr, sg, wf,
                   th, gl, pf, ld>>

NextDisk ==
    \/ DoGet
    \/ DoSet
    \/ DoFlush
    \/ DoClear
    \/ DoRemoveProxy
    \/ DiskChange

SpecDisk == Init /\ [][NextDisk]_vars

(***************************************************************************)
(* SpecThreads: Threads threads calling get, get_with_metadata, set,       *)
(* remove_proxy, clear, keys and flush on one FileCache. Every method body *)
(* is `with self._lock:`; inside it a thread goes statement by statement   *)
(* and can be suspended between any two, the clock going on meanwhile.     *)
(***************************************************************************)
Threads == 2
\* calls made by all threads together
MaxThreadCalls == 2

\* acquiring a lock that excludes nobody
lock_ignored(lock, t) == TRUE

\* `with self._lock:` entered by thread t: threading.Lock is free (0) or held
lock_free(lock, t) == lock = 0

\* the calls the threads make: those with a key all on one key
ThreadCalls ==
    { [op |-> op, key |-> "k1"] : op \in {"get", "get_with_metadata", "set", "remove_proxy"} }
    \cup { [op |-> op, key |-> ""] : op \in {"clear", "keys", "flush"} }
\* the cache file the instance was constructed over
ThreadFiles ==
    { <<[key |-> "k2", value |-> [v |-> 2], cached_at |-> 0],
        [key |-> "k1", value |-> [v |-> 1], cached_at |-> 0]>> }
\* the first statement of a method body
first_pc(op) ==
    IF op \in {"get", "get_with_metadata"} THEN "lookup"
    ELSE IF op = "set" THEN "store"
    ELSE IF op = "flush" THEN "flush_check"
    ELSE IF op = "clear" THEN "clear"
    ELSE IF op = "keys" THEN "keys"
    ELSE "rm_check"
\* what get / get_with_metadata return for a missing or expired entry
none_ret(op) == IF op = "get" THEN NoneV ELSE <<NoneV, NoneV>>
\* the object as the methods' operators see it, without the marker of a write
Snapshot(s) == [cache |-> s.cache, pending |-> s.pending, file |-> s.file, fstat |-> s.fstat]

\* th: lock is the holder of self._lock (0: free); calls counts the calls begun;
\* per thread pc is "idle", "wait" (at `with self._lock:`), a statement of the
\* method body, or "release" (leaving the with block); entry and tmp are local
\* variables, at the clock value the call read, reset whether the call has set
\* the pending counter to 0, pre the object when the lock was acquired.
\* last describes the call that returned last; setCalls counts the set calls
\* that have returned since a call last reset the pending counter.
IdleThread ==
    [pc |-> "idle", op |-> "", key |-> "", entry |-> NoneV, tmp |-> 0, at |-> 0,
     reset |-> FALSE, ret |-> NoneV, pre |-> NoneV]
InitThreads ==
    /\ FileCacheInit(ThreadFiles)
    /\ obs = NoObs
    /\ setCalls = 0
    /\ px = PxIdle
    /\ sr = SrIdle
    /\ sg = SgIdle
    /\ wf = WfIdle
    /\ gl = GlIdle
    /\ pf = PfIdle
    /\ ld = LdIdle
    /\ th = [lock |-> 0, calls |-> 0, last |-> NoneV,
             threads |-> [t \in 1..Threads |-> IdleThread]]

threadsFrame == <<diskOk, obs, px, sr, sg, wf, gl, pf, ld>>

\* a thread calls a method and comes to `with self._lock:`
ThCall ==
    \E t \in 1..Threads, c \in ThreadCalls :
        /\ th.threads[t].pc = "idle"
        /\ th.calls < MaxThreadCalls
        /\ th' = [th EXCEPT !.calls = @ + 1,
                            !.threads[t] = [IdleThread EXCEPT !.pc = "wait", !.op = c.op,
                                                              !.key = c.key]]
        /\ UNCHANGED <<cacheVars, now, setCalls, threadsFrame>>

\* self._lock.__enter__()
ThAcquire ==
    \E t \in 1..Threads :
        /\ th.threads[t].pc = "wait"
        /\ lock_free(th.lock, t)
        /\ th' = [th EXCEPT !.lock = t,
                            !.threads[t].pc = first_pc(th.threads[t].op),
                            !.threads[t].at = now,
                            !.threads[t].pre = Snapshot(Self)]
        /\ UNCHANGED <<cacheVars, now, setCalls, threadsFrame>>

\* get, get_with_metadata: entry = self._cache.get(key); if entry is None: return
ThLookup ==
    \E t \in 1..Threads :
        /\ th.threads[t].pc = "lookup"
        /\ th' = IF Has(_cache, th.threads[t].key)
                 THEN [th EXCEPT !.threads[t].entry = Lookup(_cache, th.threads[t].key),
                                 !.threads[t].pc = "expiry"]
                 ELSE [th EXCEPT !.threads[t].ret = none_ret(th.threads[t].op),
                                 !.threads[t].pc = "release"]
        /\ UNCHANGED <<cacheVars, now, setCalls, threadsFrame>>

\* get, get_with_metadata: if self._is_expired(entry.get("cached_at", "")), else
\* return entry.get("value") [, entry.get("cached_at")]
ThExpiry ==
    \E t \in 1..Threads :
        /\ th.threads[t].pc = "expiry"
        /\ th' = IF _is_expired(th.threads[t].entry.cached_at, now)
                 THEN [th EXCEPT !.threads[t].at = now, !.threads[t].pc = "delete"]
                 ELSE [th EXCEPT !.threads[t].at = now,
                                 !.threads[t].ret =
                                     IF th.threads[t].op = "get"
                                     THEN th.threads[t].entry.value
                                     ELSE <<th.threads[t].entry.value,
                                            th.threads[t].entry.cached_at>>,
                                 !.threads[t].pc = "release"]
        /\ UNCHANGED <<cacheVars, now, setCalls, threadsFrame>>

\* del self._cache[key] (get, get_with_metadata: then return None; remove_proxy:
\* then self._save())
ThDelete ==
    \E t \in 1..Threads :
        /\ th.threads[t].pc = "delete"
        /\ _cache' = Del(_cache, th.threads[t].key)
        /\ th' = IF th.threads[t].op = "remove_proxy"
                 THEN [th EXCEPT !.threads[t].pc = "save"]
                 ELSE [th EXCEPT !.threads[t].ret = none_ret(th.threads[t].op),
                                 !.threads[t].pc = "release"]
        /\ UNCHANGED <<_pending_writes, file, fstat, now, setCalls, threadsFrame>>

\* set: self._cache[key] = {"value": value, "cached_at": datetime.now().isoformat()}
ThStore ==
    \E t \in 1..Threads :
        /\ th.threads[t].pc = "store"
        /\ _cache' = Put(_cache, th.threads[t].key,
                         [key |-> th.threads[t].key, value |-> [v |-> 1],
                          cached_at |-> isoformat(now)])
        /\ th' = [th EXCEPT !.threads[t].at = now, !.threads[t].pc = "incr_read"]
        /\ UNCHANGED <<_pending_writes, file, fstat, now, setCalls, threadsFrame>>

\* set: self._pending_writes += 1, the read
ThIncrRead ==
    \E t \in 1..Threads :
        /\ th.threads[t].pc = "incr_read"
        /\ th' = [th EXCEPT !.threads[t].tmp = _pending_writes,
                            !.threads[t].pc = "incr_write"]
        /\ UNCHANGED <<cacheVars, now, setCalls, threadsFrame>>

\* set: self._pending_writes += 1, the write
ThIncrWrite ==
    \E t \in 1..Threads :
        /\ th.threads[t].pc = "incr_write"
        /\ _pending_writes' = th.threads[t].tmp + 1
        /\ th' = [th EXCEPT !.threads[t].pc = "batch"]
        /\ UNCHANGED <<_cache, file, fstat, now, setCalls, threadsFrame>>

\* set: if self._pending_writes >= self.batch_size
ThBatch ==
    \E t \in 1..Threads :
        /\ th.threads[t].pc = "batch"
        /\ th' = [th EXCEPT !.threads[t].pc =
                      IF _pending_writes >= batch_size THEN "save" ELSE "release"]
        /\ UNCHANGED <<cacheVars, now, setCalls, threadsFrame>>

\* flush: if self._pending_writes > 0
ThFlushCheck ==
    \E t \in 1..Threads :
        /\ th.threads[t].pc = "flush_check"
        /\ th' = [th EXCEPT !.threads[t].pc =
                      IF _pending_writes > 0 THEN "save" ELSE "release"]
        /\ UNCHANGED <<cacheVars, now, setCalls, threadsFrame>>

\* self._save() (set, flush: then the counter is reset; clear, remove_proxy: the
\* last statement)
ThSave ==
    \E t \in 1..Threads :
        /\ th.threads[t].pc = "save"
        /\ Install(_save(Self))
        /\ th' = [th EXCEPT !.threads[t].pc =
                      IF th.threads[t].op \in {"set", "flush"} THEN "reset" ELSE "release"]
        /\ UNCHANGED <<now, setCalls, threadsFrame>>

\* set, flush: self._pending_writes = 0
ThReset ==
    \E t \in 1..Threads :
        /\ th.threads[t].pc = "reset"
        /\ _pending_writes' = 0
        /\ th' = [th EXCEPT !.threads[t].reset = TRUE, !.threads[t].pc = "release"]
        /\ UNCHANGED <<_cache, file, fstat, now, setCalls, threadsFrame>>

\* clear: self._cache = {}
ThClear ==
    \E t \in 1..Threads :
        /\ th.threads[t].pc = "clear"
        /\ _cache' = <<>>
        /\ th' = [th EXCEPT !.threads[t].pc = "save"]
        /\ UNCHANGED <<_pending_writes, file, fstat, now, setCalls, threadsFrame>>

\* keys: the list comprehension over self._cache.items()
ThKeys ==
    \E t \in 1..Threads :
        /\ th.threads[t].pc = "keys"
        /\ th' = [th EXCEPT !.threads[t].at = now,
                            !.threads[t].ret = keys(Self, now),
                            !.threads[t].pc = "release"]
        /\ UNCHANGED <<cacheVars, now, setCalls, threadsFrame>>

\* remove_proxy: if key in self._cache
ThRmCheck ==
    \E t \in 1..Threads :
        /\ th.threads[t].pc = "rm_check"
        /\ th' = [th EXCEPT !.threads[t].pc =
                      IF Has(_cache, th.threads[t].key) THEN "delete" ELSE "release"]
        /\ UNCHANGED <<cacheVars, now, setCalls, threadsFrame>>

\* self._lock.__exit__(): the call returns
ThRelease ==
    \E t \in 1..Threads :
        /\ th.threads[t].pc = "release"
        /\ th' = [th EXCEPT !.lock = 0,
                            !.last = [op |-> th.threads[t].op, key |-> th.threads[t].key,
                                      at |-> th.threads[t].at, ret |-> th.threads[t].ret,
                                      pre |-> th.threads[t].pre, post |-> Snapshot(Self)],
                            !.threads[t] = IdleThread]
        /\ setCalls' = IF th.threads[t].reset THEN 0
                       ELSE IF th.threads[t].op = "set" THEN setCalls + 1
                       ELSE setCalls
        /\ UNCHANGED <<cacheVars, now, threadsFrame>>

\* time passes, whatever the threads are at
TickThreads ==
    /\ now < MaxTime
    /\ now' = now + 1
    /\ UNCHANGED <<cacheVars, setCalls, th, threadsFrame>>

NextThreads ==
    \/ ThCall
    \/ ThAcquire
    \/ ThLookup
    \/ ThExpiry
    \/ ThDelete
    \/ ThStore
    \/ ThIncrRead
    \/ ThIncrWrite
    \/ ThBatch
    \/ ThFlushCheck
    \/ ThSave
    \/ ThReset
    \/ ThClear
    \/ ThKeys
    \/ ThRmCheck
    \/ ThRelease
    \/ TickThreads
SpecThreads == InitThreads /\ [][NextThreads]_vars

(***************************************************************************)
(* SpecLoad: FileCache(cache_file, ...) constructed over whatever is at    *)
(* cache_file, followed by up to MaxCalls calls of get, set, keys, flush.  *)
(***************************************************************************)
MaxCalls == 2
\* What can be at cache_file when __init__ runs:
\*   missing      no such file
\*   unreadable   open() raises an OSError (no permission, a directory, ...)
\*   corrupt      the text is not JSON
\*   not_utf8     the bytes are not UTF-8 text (a write cut inside a character)
\*   not_object   the text is JSON for something other than an object
\*   ok           the text is the JSON object an earlier run wrote
FileKinds == {"missing", "unreadable", "corrupt", "not_utf8", "not_object", "ok"}
\* an exception a call raises
Raised(name) == [error |-> name]
\* a value json.load returns that is no dict
NotDict == [list |-> TRUE]

\* FileCache._load: [raised, cache, is_dict]. Of what open() and json.load() raise, the
\* except clause takes JSONDecodeError and IOError; a UnicodeDecodeError is
\* neither
_load(kind, content) ==
    IF kind = "missing" THEN [raised |-> NoneV, cache |-> <<>>, is_dict |-> TRUE]
    ELSE IF kind = "unreadable" THEN [raised |-> NoneV, cache |-> <<>>, is_dict |-> TRUE]
    ELSE IF kind = "corrupt" THEN [raised |-> NoneV, cache |-> <<>>, is_dict |-> TRUE]
    ELSE IF kind = "not_utf8"
    THEN [raised |-> Raised("UnicodeDecodeError"), cache |-> <<>>, is_dict |-> TRUE]
    ELSE IF kind = "not_object" THEN [raised |-> NoneV, cache |-> NotDict, is_dict |-> FALSE]
    ELSE [raised |-> NoneV, cache |-> content, is_dict |-> TRUE]

\* ld: pc is "new" (no instance yet), "ready" or "raised" (__init__ raised);
\* kind is what was at cache_file, loaded what _load made of it, calls the
\* calls made on the instance with what each returned or raised
InitLoad ==
    /\ fstat \in FileKinds
    /\ file \in (IF fstat = "ok" THEN InitFiles ELSE {<<>>})
    /\ _cache = <<>>
    /\ _pending_writes = 0
    /\ diskOk = TRUE
    /\ now = 0
    /\ obs = NoObs
    /\ setCalls = 0
    /\ px = PxIdle
    /\ sr = SrIdle
    /\ sg = SgIdle
    /\ wf = WfIdle
    /\ th = ThIdle
    /\ gl = GlIdle
    /\ pf = PfIdle
    /\ ld = [pc |-> "new", kind |-> fstat, loaded |-> NoneV, is_dict |-> TRUE,
             raised |-> NoneV, calls |-> <<>>]

\* FileCache.__init__
Construct ==
    /\ ld.pc = "new"
    /\ LET r == _load(fstat, file)
       IN  /\ _cache' = r.cache
           /\ ld' = IF r.raised # NoneV
                    THEN [ld EXCEPT !.pc = "raised", !.raised = r.raised]
                    ELSE [ld EXCEPT !.pc = "ready", !.loaded = r.cache,
                                    !.is_dict = r.is_dict]
    /\ UNCHANGED <<_pending_writes, file, fstat, diskOk, now, obs, setCalls, px, sr, sg, wf,
                   th, gl, pf>>

CallRecord(op, ret, raised) == [op |-> op, ret |-> ret, raised |-> raised]
\* one call of get, set, keys or flush on the instance; on a _cache that is no
\* dict, .get and .items raise AttributeError and item assignment TypeError
LoadCall ==
    /\ ld.pc = "ready"
    /\ Len(ld.calls) < MaxCalls
    /\ \E op \in {"get", "set", "keys", "flush"}, key \in Keys :
          IF ~ld.is_dict
          THEN /\ ld' = [ld EXCEPT !.calls = Append(@,
                             IF op = "flush" THEN CallRecord(op, NoneV, NoneV)
                             ELSE IF op = "set" THEN CallRecord(op, NoneV, Raised("TypeError"))
                             ELSE CallRecord(op, NoneV, Raised("AttributeError")))]
               /\ UNCHANGED cacheVars
          ELSE LET r == IF op = "get" THEN get(Self, key, now)
                        ELSE IF op = "set"
                        THEN [ret |-> NoneV, self |-> set(Self, key, [v |-> 1], now)]
                        ELSE IF op = "keys" THEN [ret |-> keys(Self, now), self |-> Self]
                        ELSE [ret |-> NoneV, self |-> flush(Self)]
               IN  /\ Install(r.self)
                   /\ ld' = [ld EXCEPT !.calls = Append(@, CallRecord(op, r.ret, NoneV))]
                   /\ UNCHANGED diskOk
    /\ UNCHANGED <<now, obs, setCalls, px, sr, sg, wf, th, gl, pf>>

NextLoad ==
    \/ Construct
    \/ LoadCall
SpecLoad == InitLoad /\ [][NextLoad]_vars

(***************************************************************************)
(* proxy.py: fetch_with_proxy_rotation(url, content_check, min_size,       *)
(* max_workers) over the ProxyCache. The main thread submits one           *)
(* _test_proxy_for_content task per candidate to a ThreadPoolExecutor and  *)
(* consumes as_completed(futures); the pool's workers run the tasks.       *)
(***************************************************************************)
\* max_workers (PROXY_TEST_WORKERS)
max_workers == 2
\* MAX_PROXY_TRIES, scaled down so that the cap cuts the candidate list
MAX_PROXY_TRIES == 2

\* arguments of the call
content_check == <<"M">>
min_size == 2

\* ProxyCache.make_key: the text f"{ip}:{port}", as the sequence of its parts
make_key(ip, port) == <<ip, ":", port>>
\* ip, port = key.split(":", 1): what stands before and after the first ":"
SplitKey(key) ==
    LET c == CHOOSE i \in 1..Len(key) : key[i] = ":" /\ \A j \in 1..(i - 1) : key[j] # ":"
    IN  [ip |-> key[c - 1], port |-> key[c + 1]]

ProxyA == [ip |-> "10.0.0.1", port |-> "80"]
ProxyB == [ip |-> "10.0.0.2", port |-> "80"]
ProxyC == [ip |-> "10.0.0.3", port |-> "80"]
ProxyD == [ip |-> "10.0.0.4", port |-> "80"]

\* `sub in text` for texts as sequences of characters
Contains(text, sub) ==
    \E i \in 0..(Len(text) - Len(sub)) :
        \A j \in 1..Len(sub) : text[i + j] = sub[j]

\* What a GET through a proxy can end in, and the time it took: a
\* RequestException (exc), or a response with its status and body
Outcomes ==
    { [exc |-> TRUE, status |-> 0, text |-> <<>>, elapsed_ms |-> 2],
      [exc |-> FALSE, status |-> 404, text |-> <<"x", "M">>, elapsed_ms |-> 1],
      [exc |-> FALSE, status |-> 200, text |-> <<"M">>, elapsed_ms |-> 1],
      [exc |-> FALSE, status |-> 200, text |-> <<"x", "x">>, elapsed_ms |-> 1],
      [exc |-> FALSE, status |-> 200, text |-> <<"x", "M">>, elapsed_ms |-> 1],
      [exc |-> FALSE, status |-> 200, text |-> <<"x", "M">>, elapsed_ms |-> 2] }

\* A Python str value (so that it can be compared with None)
Str(chars) == [text |-> chars]

\* fetch_with_proxy that returns the body whatever the status
fetch_with_proxy_any_status(o) ==
    IF ~o.exc THEN Str(o.text) ELSE NoneV

\* fetch_with_proxy: the body of a 200 response, else None
fetch_with_proxy(o) ==
    IF ~o.exc /\ o.status = 200 THEN Str(o.text) ELSE NoneV

\* Truthiness of `html` (None and "" are falsy)
HtmlTruthy(html) == html # NoneV /\ html # Str(<<>>)

\* _test_proxy_for_content without the min_size test
test_no_min_size(proxy, o) ==
    LET html == fetch_with_proxy(o)
    IN  IF HtmlTruthy(html) /\ Contains(html.text, content_check)
        THEN [proxy |-> proxy, html |-> html, speed_ms |-> o.elapsed_ms]
        ELSE [proxy |-> proxy, html |-> NoneV, speed_ms |-> o.elapsed_ms]

\* _test_proxy_for_content: (proxy, html_or_none, speed_ms)
_test_proxy_for_content(proxy, o) ==
    LET html == fetch_with_proxy(o)
    IN  IF HtmlTruthy(html) /\ Contains(html.text, content_check)
           /\ Len(html.text) >= min_size
        THEN [proxy |-> proxy, html |-> html, speed_ms |-> o.elapsed_ms]
        ELSE [proxy |-> proxy, html |-> NoneV, speed_ms |-> o.elapsed_ms]

\* sorted(proxies, key=speed) is stable: ps[i] comes after the faster proxies
\* and after the equally fast ones that stand before it
SpeedRank(ps, i) ==
    Cardinality({j \in 1..Len(ps) :
                    \/ ps[j].speed < ps[i].speed
                    \/ (ps[j].speed = ps[i].speed /\ j <= i)})
SortBySpeed(ps) ==
    [k \in 1..Len(ps) |-> ps[CHOOSE i \in 1..Len(ps) : SpeedRank(ps, i) = k]]

\* ProxyCache.get_working_proxies: [ret, self]; one get per key listed by keys()
RECURSIVE GetEach(_, _, _, _)
GetEach(s, ks, t, acc) ==
    IF ks = <<>> THEN [ret |-> acc, self |-> s]
    ELSE LET r == get(s, Head(ks), t)
             p == SplitKey(Head(ks))
         IN  GetEach(r.self, Tail(ks), t,
                     IF Truthy(r.ret)
                     THEN Append(acc, [ip |-> p.ip, port |-> p.port,
                                       speed |-> r.ret.speed_ms, source |-> "cache"])
                     ELSE acc)
get_working_proxies(s, t) ==
    LET r == GetEach(s, keys(s, t), t, <<>>)
    IN  [ret |-> SortBySpeed(r.ret), self |-> r.self]

\* add_working_proxy that ignores the measured latency
add_working_proxy_no_speed(s, ip, port, speed_ms, t) ==
    set(s, make_key(ip, port), [speed_ms |-> 0], t)

\* ProxyCache.add_working_proxy
add_working_proxy(s, ip, port, speed_ms, t) ==
    set(s, make_key(ip, port), [speed_ms |-> speed_ms], t)

\* the loop `for proxy in failed_proxies: cache.remove_proxy(...)`
RECURSIVE RemoveAll(_, _)
RemoveAll(s, ps) ==
    IF ps = <<>> THEN s
    ELSE RemoveAll(remove_proxy(s, make_key(Head(ps).ip, Head(ps).port)), Tail(ps))

\* the de-duplication that keeps the records without ip or port
RECURSIVE Unique_keep_empty(_, _, _)
Unique_keep_empty(all, seen, acc) ==
    IF all = <<>> THEN acc
    ELSE LET q == Head(all)
             key == make_key(q.ip, q.port)
         IN  IF key \notin seen
             THEN Unique_keep_empty(Tail(all), seen \cup {key}, Append(acc, q))
             ELSE Unique_keep_empty(Tail(all), seen, acc)

\* fetch_vietnam_proxies: what the two sources return, in completion order, then
\* the de-duplication by ip:port that also drops records without ip or port
RECURSIVE Unique(_, _, _)
Unique(all, seen, acc) ==
    IF all = <<>> THEN acc
    ELSE LET q == Head(all)
             key == make_key(q.ip, q.port)
         IN  IF key \notin seen /\ q.ip # "" /\ q.port # ""
             THEN Unique(Tail(all), seen \cup {key}, Append(acc, q))
             ELSE Unique(Tail(all), seen, acc)
Src(q, tag) == [ip |-> q.ip, port |-> q.port, source |-> tag]
\* the lists _fetch_from_proxyscrape can return ([] on any failure)
ProxyScrapeLists ==
    { <<>>,
      <<Src(ProxyA, "proxyscrape")>>,
      <<Src(ProxyB, "proxyscrape"), Src(ProxyA, "proxyscrape"), Src(ProxyB, "proxyscrape")>> }
\* the lists _fetch_from_free_proxy_list can return ([] on any failure)
FreeProxyLists ==
    { <<>>,
      <<Src([ip |-> "", port |-> "80"], "free-proxy-list"), Src(ProxyC, "free-proxy-list")>>,
      <<Src(ProxyA, "free-proxy-list")>> }
fetch_vietnam_proxies(first, second) == Unique(first \o second, {}, <<>>)

\* min(a, b)
Min(a, b) == IF a <= b THEN a ELSE b

\* a fresh round that submits every proxy it was given
fresh_candidates_all(proxies) == proxies

\* max_tries = min(MAX_PROXY_TRIES, len(proxies)); proxies[:max_tries]
fresh_candidates(proxies) == SubSeq(proxies, 1, Min(MAX_PROXY_TRIES, Len(proxies)))

\* Proxy cache files left by earlier runs
Item(q, speed, at) ==
    [key |-> make_key(q.ip, q.port), value |-> [speed_ms |-> speed], cached_at |-> at]
InitProxyFiles ==
    { <<>>,
      <<Item(ProxyA, 2, 0)>>,
      <<Item(ProxyA, 2, 0), Item(ProxyB, 1, 0)>>,
      <<Item(ProxyA, 1, 0), Item(ProxyB, 1, 0), Item(ProxyC, 1, 0)>>,
      <<Item(ProxyD, 2, 0), Item(ProxyA, 1, 0), Item(ProxyB, 1, 0), Item(ProxyC, 2, 0)>> }

\* A future and the work item behind it
\*   st: "queued" (in the pool's work queue), "running" (a worker runs it: the
\*       request is issued), "done", "cancelled"
\*   resp: the outcome of its request; result: what the task returned
NewTask(proxy) ==
    [proxy |-> proxy, st |-> "queued", resp |-> NoneV, result |-> NoneV]
Submit(ps) == [i \in 1..Len(ps) |-> NewTask(ps[i])]

\* executor.shutdown(wait=False, cancel_futures=False): nothing leaves the queue
shutdown_no_cancel(tasks) == tasks

\* executor.shutdown(wait=False, cancel_futures=True): the queue is drained and
\* every future still in it is cancelled
shutdown_cancel(tasks) ==
    [i \in DOMAIN tasks |->
        IF tasks[i].st = "queued" THEN [tasks[i] EXCEPT !.st = "cancelled"] ELSE tasks[i]]

NumDone(tasks) == Cardinality({i \in DOMAIN tasks : tasks[i].st = "done"})
NumRunning(tasks) == Cardinality({i \in DOMAIN tasks : tasks[i].st = "running"})

\* the cached round's `for future in as_completed(futures)` ends after one future
cached_loop_exhausted_early(p) == p.yielded # {}

\* the cached round's `for future in as_completed(futures)` has yielded every future
cached_loop_exhausted(p) == p.yielded = DOMAIN p.tasks

PxInit ==
    [pc |-> "call", round |-> "none", tasks |-> <<>>, yielded |-> {},
     failed_proxies |-> <<>>, ret |-> NoneV,
     nCached |-> 0,          \* number of cached candidates submitted
     cachedFailed |-> 0,     \* cached validations that had completed without success
                             \* when the cached round's loop ended
     queried |-> FALSE,      \* fetch_vietnam_proxies has been called
     cancelled |-> FALSE,    \* shutdown(cancel_futures=True) has been called
     doneAtCancel |-> 0,     \* validations finished when it was called
     proxies |-> <<>>,       \* what fetch_vietnam_proxies returned
     cache0 |-> _cache]      \* the proxy cache's mapping when the call began

InitProxy ==
    /\ FileCacheInit(InitProxyFiles)
    /\ obs = NoObs
    /\ setCalls = 0
    /\ px = PxInit
    /\ sr = SrIdle
    /\ sg = SgIdle
    /\ wf = WfIdle
    /\ Idle3

\* cache = get_proxy_cache(); cached_proxies = cache.get_working_proxies();
\* submit one task per cached proxy, or go on to the fresh round
PxStart ==
    /\ px.pc = "call"
    /\ LET r == get_working_proxies(Self, now)
       IN  /\ Install(r.self)
           /\ px' = IF r.ret # <<>>
                    THEN [px EXCEPT !.pc = "cached_loop", !.round = "cached",
                                    !.tasks = Submit(r.ret), !.nCached = Len(r.ret),
                                    !.cache0 = _cache]
                    ELSE [px EXCEPT !.pc = "fetch", !.cache0 = _cache]
    /\ UNCHANGED <<diskOk, now, obs, setCalls, sr, sg, wf, th, gl, pf, ld>>

\* A pool worker takes the next work item off the queue (FIFO) and calls
\* _test_proxy_for_content, which issues the request
WorkerStart ==
    \E i \in DOMAIN px.tasks :
        /\ px.tasks[i].st = "queued"
        /\ \A j \in 1..(i - 1) : px.tasks[j].st # "queued"
        /\ NumRunning(px.tasks) < max_workers
        /\ px' = [px EXCEPT !.tasks[i].st = "running"]
        /\ UNCHANGED <<cacheVars, now, obs, setCalls, sr, sg, wf, th, gl, pf, ld>>

\* The request ends and the task returns
WorkerFinish ==
    \E i \in DOMAIN px.tasks, o \in Outcomes :
        /\ px.tasks[i].st = "running"
        /\ px' = [px EXCEPT !.tasks[i].st = "done",
                            !.tasks[i].resp = o,
                            !.tasks[i].result =
                                _test_proxy_for_content(px.tasks[i].proxy, o)]
        /\ UNCHANGED <<cacheVars, now, obs, setCalls, sr, sg, wf, th, gl, pf, ld>>

\* executor.shutdown(wait=True, ...): the caller goes on when no task runs
shutdown_waits(tasks) == NumRunning(tasks) = 0

\* executor.shutdown(wait=False, ...): the caller goes on at once
shutdown_returns(tasks) == TRUE

\* `if html:` branch of either loop: cache the proxy, shut the pool down, return
ReturnHit(res) ==
    /\ shutdown_returns(px.tasks)
    /\ Install(add_working_proxy(Self, res.proxy.ip, res.proxy.port, res.speed_ms, now))
    /\ px' = [px EXCEPT !.pc = "returned",
                        !.tasks = shutdown_cancel(px.tasks),
                        !.cancelled = TRUE,
                        !.doneAtCancel = NumDone(px.tasks),
                        !.ret = [html |-> res.html, proxy |-> res.proxy]]

\* One iteration of the cached round's loop over as_completed(futures)
CachedLoop ==
    \E i \in DOMAIN px.tasks :
        /\ px.pc = "cached_loop"
        /\ px.tasks[i].st = "done"
        /\ i \notin px.yielded
        /\ LET res == px.tasks[i].result
           IN  IF HtmlTruthy(res.html)
               THEN ReturnHit(res)
               ELSE /\ px' = [px EXCEPT !.yielded = @ \cup {i},
                                        !.failed_proxies = Append(@, res.proxy)]
                    /\ UNCHANGED cacheVars
        /\ UNCHANGED <<diskOk, now, obs, setCalls, sr, sg, wf, th, gl, pf, ld>>

\* The cached round's loop ends without a hit: executor.shutdown(wait=False),
\* then the failed proxies are removed from the cache
CachedRoundEnd ==
    /\ px.pc = "cached_loop"
    /\ cached_loop_exhausted(px)
    /\ Install(RemoveAll(Self, px.failed_proxies))
    /\ px' = [px EXCEPT !.pc = "fetch",
                        !.cachedFailed =
                            Cardinality({i \in DOMAIN px.tasks :
                                            /\ px.tasks[i].st = "done"
                                            /\ ~HtmlTruthy(px.tasks[i].result.html)})]
    /\ UNCHANGED <<diskOk, now, obs, setCalls, sr, sg, wf, th, gl, pf, ld>>

\* proxies = fetch_vietnam_proxies(); return (None, None) when there are none,
\* else submit proxies[:max_tries] to a new executor (the cached round's futures
\* and failed_proxies are not read again)
FetchFresh ==
    \E a \in ProxyScrapeLists, b \in FreeProxyLists, aFirst \in BOOLEAN :
        /\ px.pc = "fetch"
        /\ LET proxies == IF aFirst THEN fetch_vietnam_proxies(a, b)
                          ELSE fetch_vietnam_proxies(b, a)
           IN  px' = IF proxies = <<>>
                     THEN [px EXCEPT !.pc = "returned", !.round = "fresh",
                                     !.queried = TRUE, !.yielded = {},
                                     !.failed_proxies = <<>>, !.tasks = <<>>,
                                     !.ret = [html |-> NoneV, proxy |-> NoneV]]
                     ELSE [px EXCEPT !.pc = "fresh_loop", !.round = "fresh",
                                     !.queried = TRUE, !.yielded = {},
                                     !.failed_proxies = <<>>,
                                     !.proxies = proxies,
                                     !.tasks = Submit(fresh_candidates(proxies))]
        /\ UNCHANGED <<cacheVars, now, obs, setCalls, sr, sg, wf, th, gl, pf, ld>>

\* One iteration of the fresh round's loop over as_completed(futures)
FreshLoop ==
    \E i \in DOMAIN px.tasks :
        /\ px.pc = "fresh_loop"
        /\ px.tasks[i].st = "done"
        /\ i \notin px.yielded
        /\ LET res == px.tasks[i].result
           IN  IF HtmlTruthy(res.html)
               THEN ReturnHit(res)
               ELSE /\ px' = [px EXCEPT !.yielded = @ \cup {i}]
                    /\ UNCHANGED cacheVars
        /\ UNCHANGED <<diskOk, now, obs, setCalls, sr, sg, wf, th, gl, pf, ld>>

\* The fresh round's loop ends without a hit: executor.shutdown(wait=False);
\* return None, None
FreshRoundEnd ==
    /\ px.pc = "fresh_loop"
    /\ px.yielded = DOMAIN px.tasks
    /\ px' = [px EXCEPT !.pc = "returned", !.ret = [html |-> NoneV, proxy |-> NoneV]]
    /\ UNCHANGED <<cacheVars, now, obs, setCalls, sr, sg, wf, th, gl, pf, ld>>

\* The clock is read by get_working_proxies and by add_working_proxy; it advances
\* before the call
TickProxy ==
    /\ px.pc = "call"
    /\ Tick

NextProxy ==
    \/ PxStart
    \/ WorkerStart
    \/ WorkerFinish
    \/ CachedLoop
    \/ CachedRoundEnd
    \/ FetchFresh
    \/ FreshLoop
    \/ FreshRoundEnd
    \/ TickProxy

SpecProxy == InitProxy /\ [][NextProxy]_vars

\* The loop of the round under way has a successful validation to take
HitReady ==
    /\ px.pc \in {"cached_loop", "fresh_loop"}
    /\ \E i \in DOMAIN px.tasks :
          /\ px.tasks[i].st = "done" /\ i \notin px.yielded
          /\ HtmlTruthy(px.tasks[i].result.html)
\* the caller is inside fetch_with_proxy_rotation with no success to take yet
Awaiting == px.pc \in {"cached_loop", "fresh_loop"} /\ ~HitReady

\* Proxy cache files of the runs whose end is checked
LiveProxyFiles ==
    { <<>>, <<Item(ProxyA, 2, 0), Item(ProxyB, 1, 0)>> }

InitProxyLive ==
    /\ FileCacheInit(LiveProxyFiles)
    /\ fstat # "corrupt"
    /\ obs = NoObs
    /\ setCalls = 0
    /\ px = PxInit
    /\ sr = SrIdle
    /\ sg = SgIdle
    /\ wf = WfIdle
    /\ Idle3

\* the steps of the thread that called fetch_with_proxy_rotation
Caller ==
    \/ PxStart
    \/ CachedLoop
    \/ CachedRoundEnd
    \/ FetchFresh
    \/ FreshLoop
    \/ FreshRoundEnd
\* the steps of the pools' workers
Workers ==
    \/ WorkerStart
    \/ WorkerFinish

NextProxyLive ==
    \/ Caller
    \/ Workers

\* SpecProxyLive: the thread of the caller always goes on (the proxy-source
\* calls return), and the pools' workers start and finish validations (every
\* request ends or times out) as long as the caller has no success to take;
\* nothing is assumed of the workers after that. The clock stands still.
SpecProxyLive ==
    /\ InitProxyLive
    /\ [][NextProxyLive]_vars
    /\ WF_vars(Caller)
    /\ WF_vars(Awaiting /\ Workers)

(***************************************************************************)
(* spotify.py: search_songs_concurrent(sp, songs, progress_callback) over  *)
(* the SpotifyCache, followed by workflow.build_sync_results. Each pool    *)
(* worker runs search_with_index(i, song); the main thread consumes        *)
(* as_completed(futures) inside the `with ThreadPoolExecutor` block.       *)
(***************************************************************************)
\* SPOTIFY_SEARCH_WORKERS, scaled down so that entries wait in the queue
SPOTIFY_SEARCH_WORKERS == 2

\* str.lower() on the characters used here
LowerChar(c) == IF c = "A" THEN "a" ELSE IF c = "X" THEN "x" ELSE c
Lower(chars) == [i \in 1..Len(chars) |-> LowerChar(chars[i])]
\* str.strip(): drops leading and trailing blanks
RECURSIVE LStrip(_)
LStrip(chars) ==
    IF chars # <<>> /\ Head(chars) = " " THEN LStrip(Tail(chars)) ELSE chars
RECURSIVE RStrip(_)
RStrip(chars) ==
    IF chars # <<>> /\ chars[Len(chars)] = " "
    THEN RStrip(SubSeq(chars, 1, Len(chars) - 1)) ELSE chars
Strip(chars) == LStrip(RStrip(chars))
\* SpotifyCache.make_key: f"{song_name.lower().strip()}|{artist.lower().strip()}"
song_key(song_name, artist) ==
    Strip(Lower(song_name)) \o <<"|">> \o Strip(Lower(artist))

\* Chart entries (position is the 1-based rank the parser gives)
\* str.split(","): cur is the piece read so far
RECURSIVE Split(_, _)
Split(chars, cur) ==
    IF chars = <<>> THEN <<cur>>
    ELSE IF Head(chars) = "," THEN <<cur>> \o Split(Tail(chars), <<>>)
    ELSE Split(Tail(chars), Append(cur, Head(chars)))
\* [a.strip() for a in artists.split(",") if a.strip()]
artist_list(artists) ==
    LET parts == Split(artists, <<>>)
    IN  SelectSeq([i \in 1..Len(parts) |-> Strip(parts[i])], LAMBDA a : a # <<>>)
Song(position, name, artists) ==
    [position |-> position, name |-> name, artists |-> artists,
     artist_list |-> artist_list(artists)]
\* The charts searched: the second and third hold two entries with one cache key
SongLists ==
    { <<Song(1, <<"A", "b">>, <<"X">>)>>,
      <<Song(1, <<"A", "b">>, <<"X">>), Song(2, <<" ", "a", "b">>, <<"x", " ">>)>>,
      <<Song(1, <<"A", "b">>, <<"X">>), Song(2, <<"b">>, <<>>),
        Song(3, <<"a", "b">>, <<"x">>)>> }

\* A candidate track of a search response; score is what calculate_match_score
\* gives for it against the entry, in percent
Cand(uri, score, popularity) == [uri |-> uri, score |-> score, popularity |-> popularity]
\* the dict search_spotify_single returns for the best track b.track with score b.score
Found(b) ==
    [spotify_url |-> <<"url">> \o b.track.uri, track_uri |-> b.track.uri,
     popularity |-> b.track.popularity, match_score |-> b.score]
\* A result dict as an earlier run left it in the cache
Track(uri) == Found([track |-> Cand(uri, 100, 40), score |-> 100])

(***************************************************************************)
(* spotify.py: search_spotify_single(sp, song) and _search_with_retry.     *)
(* One step is one sp.search call and what the two loops do with its       *)
(* outcome; the remote side answers each call as it likes.                 *)
(***************************************************************************)
\* SPOTIFY_RETRY_ATTEMPTS (3 in config.py), scaled down
SPOTIFY_RETRY_ATTEMPTS == 2

\* What one sp.search call can do: return a response with its items, raise
\* SpotifyException with http_status 429 ("rate"), raise SpotifyException with
\* another status ("spotify_error"), raise any other exception ("error")
Resp(kind, items) == [kind |-> kind, items |-> items]
Responses ==
    { Resp("ok", <<>>),
      Resp("ok", <<Cand(<<"u", "1">>, 50, 60)>>),
      Resp("ok", <<Cand(<<"u", "1">>, 50, 60), Cand(<<"u", "2">>, 70, 30)>>),
      Resp("ok", <<Cand(<<"u", "1">>, 50, 60), Cand(<<"u", "2">>, 70, 30),
                  Cand(<<"u", "3">>, 70, 90)>>),
      Resp("rate", <<>>),
      Resp("spotify_error", <<>>),
      Resp("error", <<>>) }

\* SPOTIFY_RETRY_DELAY, in seconds
SPOTIFY_RETRY_DELAY == 2
\* what an attempt leads to: out is "return", "continue" (the next attempt) or
\* "raise"; sleep the seconds slept after the attempt
Outcome(out, value, sleep) == [out |-> out, value |-> value, sleep |-> sleep]

\* a retry loop with one attempt too many on a rate limit
retry_one_more(attempt, resp) ==
    IF resp.kind = "ok" THEN Outcome("return", resp, 0)
    ELSE IF resp.kind = "rate"
    THEN (IF attempt < SPOTIFY_RETRY_ATTEMPTS
          THEN Outcome("continue", NoneV, SPOTIFY_RETRY_DELAY * 2 ^ attempt)
          ELSE Outcome("return", NoneV, SPOTIFY_RETRY_DELAY * 2 ^ attempt))
    ELSE Outcome("raise", NoneV, 0)

\* _search_with_retry: the body of `for attempt in range(SPOTIFY_RETRY_ATTEMPTS)` for
\* one attempt. "continue" goes to the next attempt (after the sleep); when the range
\* is used up by a rate limit the loop ends and the function returns None. A rate
\* limit is slept on at every attempt, the last included; a SpotifyException with
\* another status is raised at once.
_search_with_retry(attempt, resp) ==
    IF resp.kind = "ok" THEN Outcome("return", resp, 0)
    ELSE IF resp.kind = "rate"
    THEN (IF attempt + 1 < SPOTIFY_RETRY_ATTEMPTS
          THEN Outcome("continue", NoneV, SPOTIFY_RETRY_DELAY * 2 ^ attempt)
          ELSE Outcome("return", NoneV, SPOTIFY_RETRY_DELAY * 2 ^ attempt))
    ELSE IF resp.kind = "spotify_error" THEN Outcome("raise", NoneV, 0)
    ELSE (IF attempt < SPOTIFY_RETRY_ATTEMPTS - 1
          THEN Outcome("continue", NoneV, SPOTIFY_RETRY_DELAY)
          ELSE Outcome("raise", NoneV, 0))

\* The query strings, each with the number of the strategy that made it
Query(strategy, q) == [strategy |-> strategy, q |-> q]
\* the strategies tried from the loosest to the strictest
build_queries_loosest_first(song) ==
    <<Query(3, song.name)>> \o
    (IF song.artist_list # <<>>
     THEN <<Query(2, song.name \o <<" ">> \o song.artist_list[1])>> ELSE <<>>) \o
    (IF song.artist_list # <<>>
     THEN <<Query(1, <<"track:\"">> \o song.name \o <<"\" artist:\"">>
                        \o song.artist_list[1] \o <<"\"">>)>> ELSE <<>>)

\* search_spotify_single: search_queries
build_queries(song) ==
    (IF song.artist_list # <<>>
     THEN <<Query(1, <<"track:\"">> \o song.name \o <<"\" artist:\"">>
                        \o song.artist_list[1] \o <<"\"">>)>> ELSE <<>>) \o
    (IF song.artist_list # <<>>
     THEN <<Query(2, song.name \o <<" ">> \o song.artist_list[1])>> ELSE <<>>) \o
    <<Query(3, song.name)>>

\* the scan keeping the last of the tracks with the highest score (>= for >)
RECURSIVE best_match_last_of_equal(_, _, _)
best_match_last_of_equal(tracks, best_track, best_score) ==
    IF tracks = <<>> THEN [track |-> best_track, score |-> best_score]
    ELSE IF Head(tracks).score >= best_score
    THEN best_match_last_of_equal(Tail(tracks), Head(tracks), Head(tracks).score)
    ELSE best_match_last_of_equal(Tail(tracks), best_track, best_score)

\* `for track in tracks: if score > best_score: ...`, starting from (None, -1)
RECURSIVE best_match(_, _, _)
best_match(tracks, best_track, best_score) ==
    IF tracks = <<>> THEN [track |-> best_track, score |-> best_score]
    ELSE IF Head(tracks).score > best_score
    THEN best_match(Tail(tracks), Head(tracks), Head(tracks).score)
    ELSE best_match(Tail(tracks), best_track, best_score)

\* search_spotify_single on entry: query qi (1-based) of search_queries is at its
\* attempt-th attempt (0-based); calls lists the sp.search calls made so far
SgStart(song) ==
    [pc |-> "call", song |-> song, search_queries |-> build_queries(song),
     qi |-> 1, attempt |-> 0, calls |-> <<>>, ret |-> NoneV]

\* `continue` of `for query in search_queries`; after the last query, return None
next_query(s) ==
    IF s.qi < Len(s.search_queries)
    THEN [s EXCEPT !.qi = @ + 1, !.attempt = 0]
    ELSE [s EXCEPT !.pc = "done", !.ret = NoneV]

\* One sp.search call answered by resp, and what follows it up to the next call;
\* calls records how _search_with_retry went on after each answer (out)
single_step(s, resp) ==
    LET r == _search_with_retry(s.attempt, resp)
        t == [s EXCEPT !.calls = Append(@, [strategy |-> s.search_queries[s.qi].strategy,
                                             q |-> s.search_queries[s.qi].q,
                                             attempt |-> s.attempt,
                                             kind |-> resp.kind,
                                             items |-> Len(resp.items),
                                             tracks |-> resp.items,
                                             out |-> r.out,
                                             sleep |-> r.sleep])]
    IN  IF r.out = "continue" THEN [t EXCEPT !.attempt = @ + 1]
        ELSE IF r.out = "raise" THEN next_query(t)
        ELSE IF r.value = NoneV THEN next_query(t)
        ELSE IF r.value.items = <<>> THEN next_query(t)
        ELSE [t EXCEPT !.pc = "done",
                       !.ret = Found(best_match(r.value.items, NoneV, -1))]

\* search_spotify_single against a remote side that answers the n-th call with
\* plan[n], the plan starting over when it is used up
RECURSIVE run_single(_, _, _)
run_single(s, plan, n) ==
    IF s.pc = "done" THEN s
    ELSE run_single(single_step(s, plan[((n - 1) % Len(plan)) + 1]), plan, n + 1)
search_spotify_single(song, plan) == run_single(SgStart(song), plan, 1)

\* The entries searched one at a time
SingleSongs ==
    { Song(1, <<"A", "b">>, <<"X">>),
      Song(2, <<"b">>, <<>>),
      Song(3, <<"c">>, <<"X", ",", " ", "Y">>) }

InitSingle ==
    /\ FileCacheInit({<<>>})
    /\ obs = NoObs
    /\ setCalls = 0
    /\ px = PxIdle
    /\ sr = SrIdle
    /\ wf = WfIdle
    /\ Idle3
    /\ \E song \in SingleSongs : sg = [pc |-> "entry", song |-> song]

\* lines 181-196: the queries are built
SingleBuild ==
    /\ sg.pc = "entry"
    /\ sg' = SgStart(sg.song)
    /\ UNCHANGED <<cacheVars, now, obs, setCalls, px, sr, wf, th, gl, pf, ld>>

\* one sp.search call
SingleCall ==
    /\ sg.pc = "call"
    /\ \E resp \in Responses : sg' = single_step(sg, resp)
    /\ UNCHANGED <<cacheVars, now, obs, setCalls, px, sr, wf, th, gl, pf, ld>>

NextSingle ==
    \/ SingleBuild
    \/ SingleCall

\* every sp.search call returns or raises and every sleep ends, so the thread
\* running the loops goes on
SpecSingle == InitSingle /\ [][NextSingle]_vars /\ WF_vars(NextSingle)
\* How the remote side answers the calls made for one entry (see search_spotify_single)
RemotePlans ==
    { <<Resp("rate", <<>>)>>,
      <<Resp("error", <<>>), Resp("spotify_error", <<>>)>>,
      <<Resp("ok", <<>>)>>,
      <<Resp("rate", <<>>), Resp("ok", <<Cand(<<"u", "1">>, 50, 60)>>)>>,
      <<Resp("ok", <<>>),
        Resp("ok", <<Cand(<<"u", "1">>, 50, 60), Cand(<<"u", "2">>, 70, 30)>>)>> }
\* every sp.search call of a search raised
AllFailed(calls) == \A i \in 1..Len(calls) : calls[i].kind # "ok"

\* Search cache files left by earlier runs
InitSearchFiles ==
    { <<>>,
      <<[key |-> song_key(<<"a", "b">>, <<"x">>), value |-> EmptyDict, cached_at |-> 0]>>,
      <<[key |-> song_key(<<"b">>, <<>>), value |-> Track(<<"u", "2">>), cached_at |-> 0]>> }

\* `if cached:` in place of `if cached is not None:`
cache_hit_truthy(cached) == Truthy(cached)

\* search_spotify: `if cached is not None`
cache_hit(cached) == cached # NoneV

\* get_song that stores the entry again on a hit
get_song_touch(s, song_name, artist, t) ==
    LET r == get(s, song_key(song_name, artist), t)
    IN  IF r.ret # NoneV
        THEN [ret |-> r.ret, self |-> set(r.self, song_key(song_name, artist), r.ret, t)]
        ELSE r

\* SpotifyCache.get_song
get_song(s, song_name, artist, t) == get(s, song_key(song_name, artist), t)
\* set_song that stores matches only
set_song_skip_empty(s, song_name, artist, spotify_result, t) ==
    IF spotify_result = EmptyDict THEN s
    ELSE set(s, song_key(song_name, artist), spotify_result, t)

\* SpotifyCache.set_song
set_song(s, song_name, artist, spotify_result, t) ==
    set(s, song_key(song_name, artist), spotify_result, t)

\* search_spotify after a miss: cache the result, {} standing for None
search_spotify_store(s, song, result, t) ==
    IF result # NoneV
    THEN set_song(s, song.name, song.artists, result, t)
    ELSE set_song(s, song.name, song.artists, EmptyDict, t)

\* search_with_index: the empty dict of the negative cache becomes None
with_index(index, result, was_cached) ==
    [index |-> index,
     result |-> IF result = EmptyDict THEN NoneV ELSE result,
     was_cached |-> was_cached]

\* a results list filled in completion order
result_slot_by_completion(fut, yielded) == Cardinality(yielded) + 1

\* results[index] = result: the slot the main thread writes
result_slot(fut, yielded) == fut.index

\* SyncResult.from_song_and_spotify
from_song_and_spotify(song, spotify_result) ==
    [rank |-> song.position, song_name |-> song.name, artists |-> song.artists,
     spotify_url |-> IF Truthy(spotify_result) THEN spotify_result.spotify_url ELSE <<>>,
     popularity |-> IF Truthy(spotify_result) THEN spotify_result.popularity ELSE 0,
     match_score |-> IF Truthy(spotify_result) THEN spotify_result.match_score ELSE 0,
     track_uri |-> IF Truthy(spotify_result) THEN spotify_result.track_uri ELSE <<>>]
\* SyncResult.found
found(r) == r.spotify_url # <<>>

\* an output that lists the matched entries only
build_matched_only(songs, spotify_results) ==
    LET all == [i \in 1..Min(Len(songs), Len(spotify_results)) |->
                   from_song_and_spotify(songs[i], spotify_results[i])]
    IN  SelectSeq(all, found)

\* build_sync_results: zip(songs, spotify_results); the results list
build_sync_results(songs, spotify_results) ==
    [i \in 1..Min(Len(songs), Len(spotify_results)) |->
        from_song_and_spotify(songs[i], spotify_results[i])]
\* build_sync_results: the track_uris list
track_uris_of(results) ==
    LET with_uri == SelectSeq(results, LAMBDA r : r.track_uri # <<>>)
    IN  [i \in 1..Len(with_uri) |-> with_uri[i].track_uri]

SongKeys(songs) == {song_key(songs[i].name, songs[i].artists) : i \in 1..Len(songs)}

(***************************************************************************)
(* workflow.py: run_chart_sync and the functions it calls.                 *)
(***************************************************************************)
\* SyncStats(), SyncOutput()
SyncStats == [total_songs |-> 0, songs_found |-> 0, cache_hits |-> 0, cache_misses |-> 0]
SyncOutput == [results |-> <<>>, stats |-> SyncStats, track_uris |-> <<>>]

\* bool(s) of a str | None argument
NonEmpty(s) == s # NoneV /\ s # Str(<<>>)

\* The arguments and the environment of a run: client_id, client_secret and
\* refresh_token are the environment variables ("" when unset); the user's
\* progress_callback is either given or None
Cfg(client_id, client_secret, refresh_token, mode, playlist_name, sorted_name, trending_name, headless, output_file, progress_callback) ==
    [client_id |-> client_id, client_secret |-> client_secret,
     refresh_token |-> refresh_token, mode |-> mode, playlist_name |-> playlist_name,
     sorted_playlist_name |-> sorted_name,
     trending_playlist_name |-> trending_name, headless |-> headless,
     output_file |-> output_file, progress_callback |-> progress_callback]

\* a callback that counts the entries with a match only
stats_callback_matched_only(output, index, song, result, cached) ==
    IF result = NoneV THEN output
    ELSE IF cached THEN [output EXCEPT !.stats.cache_hits = @ + 1]
    ELSE [output EXCEPT !.stats.cache_misses = @ + 1]

\* run_chart_sync.stats_callback: what it does to output
stats_callback(output, index, song, result, cached) ==
    IF cached THEN [output EXCEPT !.stats.cache_hits = @ + 1]
    ELSE [output EXCEPT !.stats.cache_misses = @ + 1]

\* run_chart_sync.stats_callback: `if progress_callback: progress_callback(...)`
forward_progress(progress, progress_callback, index, cached) ==
    IF progress_callback THEN Append(progress, [index |-> index, cached |-> cached])
    ELSE progress

\* a loop that reports the cache misses only
invoke_misses_only(callbacks, index, song, result, was_cached, written) ==
    IF was_cached THEN callbacks
    ELSE Append(callbacks, [index |-> index, song |-> song, result |-> result,
                            was_cached |-> was_cached, written |-> written])

\* search_songs_concurrent: progress_callback(index, songs[index], result, was_cached);
\* written tells whether results[index] had been assigned when the call was made
invoke_callback(callbacks, index, song, result, was_cached, written) ==
    Append(callbacks, [index |-> index, song |-> song, result |-> result,
                       was_cached |-> was_cached, written |-> written])

\* `if not songs:` taken for an empty list only when the list is None
no_songs_none_only(songs) == songs = NoneV

\* run_chart_sync: `if not songs:`
no_songs(songs) == songs = NoneV \/ songs = <<>>

\* fetch_chart_songs. remote is what the fetch over the network gives (the entries the
\* fetched page parses to, or the weekly chart API returns; None when the fetch
\* fails), local what the saved chart file parses to (None when there is no file).
\* Returns the songs and whether a fetch over the network was made.
fetch_chart_songs(mode, is_weekly, remote, local) ==
    IF mode = "vpn"
    THEN (IF is_weekly THEN [songs |-> NoneV, net |-> FALSE]
          ELSE IF remote # NoneV THEN [songs |-> remote, net |-> TRUE]
          ELSE [songs |-> local, net |-> TRUE])
    ELSE IF mode = "live"
    THEN (IF is_weekly
          THEN [songs |-> IF no_songs(remote) THEN NoneV ELSE remote, net |-> TRUE]
          ELSE IF remote # NoneV THEN [songs |-> remote, net |-> TRUE]
          ELSE [songs |-> local, net |-> TRUE])
    ELSE [songs |-> local, net |-> FALSE]

\* get_spotify_client_for_mode / get_spotify_client_headless: refresh_ok tells whether
\* refresh_access_token succeeds. Returns whether it raised and what it did.
get_spotify_client_for_mode(needs_playlist, headless, refresh_token, refresh_ok) ==
    IF needs_playlist /\ headless
    THEN (IF ~refresh_token THEN [raised |-> TRUE, log |-> <<>>]
          ELSE IF refresh_ok THEN [raised |-> FALSE, log |-> <<"token_refresh", "client">>]
          ELSE [raised |-> TRUE, log |-> <<"token_refresh">>])
    ELSE [raised |-> FALSE, log |-> <<"client">>]

\* an insertion that puts the new record ahead of the records with an equal key
RECURSIVE InsertKeyed_before_equal(_, _)
InsertKeyed_before_equal(x, s) ==
    IF s = <<>> THEN <<x>>
    ELSE IF x.k <= Head(s).k THEN <<x>> \o s
    ELSE <<Head(s)>> \o InsertKeyed_before_equal(x, Tail(s))

\* sorted(..., key=...): a stable sort of records [item, k], ascending in k
RECURSIVE InsertKeyed(_, _)
InsertKeyed(x, s) ==
    IF s = <<>> THEN <<x>>
    ELSE IF x.k < Head(s).k THEN <<x>> \o s
    ELSE <<Head(s)>> \o InsertKeyed(x, Tail(s))
RECURSIVE SortKeyed(_)
SortKeyed(s) ==
    IF s = <<>> THEN <<>>
    ELSE InsertKeyed(s[Len(s)], SortKeyed(SubSeq(s, 1, Len(s) - 1)))
UrisOf(keyed) == [i \in 1..Len(keyed) |-> keyed[i].item.track_uri]
MinOf(S) == CHOOSE x \in S : \A y \in S : x <= y
MaxOf(S) == CHOOSE x \in S : \A y \in S : x >= y

\* sync_to_playlists: sorted_uris (most popular first; reverse=True keeps the order
\* of equal elements)
sorted_uris(results) ==
    LET fr == SelectSeq(results, found)
    IN  UrisOf(SortKeyed([i \in 1..Len(fr) |-> [item |-> fr[i], k |-> 0 - fr[i].popularity]]))

\* sync_to_playlists: trending_uris. normalize(rank) + normalize(popularity), both
\* terms brought to the denominator (max_rank - min_rank) * (max_pop - min_pop).
\* The code adds two floats; for the lists of this model every quotient is 0, 1/2
\* or 1, which floats hold exactly, so the float keys order as the exact ones do.
trending_uris(results) ==
    LET fr == SelectSeq(results, found)
        ranks == {fr[i].rank : i \in 1..Len(fr)}
        pops == {fr[i].popularity : i \in 1..Len(fr)}
        dr == MaxOf(ranks) - MinOf(ranks)
        dp == MaxOf(pops) - MinOf(pops)
        key(r) == (IF dr = 0 THEN 0
                   ELSE (r.rank - MinOf(ranks)) * (IF dp = 0 THEN 1 ELSE dp))
                  + (IF dp = 0 THEN 0
                     ELSE (r.popularity - MinOf(pops)) * (IF dr = 0 THEN 1 ELSE dr))
    IN  UrisOf(SortKeyed([i \in 1..Len(fr) |-> [item |-> fr[i], k |-> key(fr[i])]]))

\* A call sync_to_playlists makes: fn(sp, name, ...) for the playlist of that kind
PlaylistOp(fn, kind, name, uris) == [fn |-> fn, kind |-> kind, name |-> name, uris |-> uris]
PlaylistCalls(kind, name, uris) ==
    << PlaylistOp("create_or_get_playlist", kind, name, <<>>),
       PlaylistOp("update_playlist", kind, name, uris) >>

\* the derived playlists written ahead of the main one
playlist_plan_derived_first(results, track_uris, playlist_name, sorted_name, trending_name) ==
    IF track_uris = <<>> THEN <<>>
    ELSE (IF NonEmpty(sorted_name)
          THEN PlaylistCalls("sorted", sorted_name, sorted_uris(results))
          ELSE <<>>)
         \o PlaylistCalls("main", playlist_name, track_uris)

\* sync_to_playlists: the calls it makes, in order, when none of them raises
playlist_plan(results, track_uris, playlist_name, sorted_name, trending_name) ==
    IF track_uris = <<>> THEN <<>>
    ELSE PlaylistCalls("main", playlist_name, track_uris)
         \o (IF NonEmpty(sorted_name)
             THEN PlaylistCalls("sorted", sorted_name, sorted_uris(results))
             ELSE <<>>)
         \o (IF NonEmpty(trending_name) /\ SelectSeq(results, found) # <<>>
             THEN PlaylistCalls("trending", trending_name, trending_uris(results))
             ELSE <<>>)

\* update_playlist: valid_uris; nothing is sent when there is none
valid_uris(track_uris) == SelectSeq(track_uris, LAMBDA uri : uri # <<>>)

(***************************************************************************)
(* SpecSingleton: cache.get_spotify_cache() called by the pool workers of  *)
(* search_songs_concurrent (search_spotify, line 251), each for the first  *)
(* time. No lock is held; a thread can be suspended between any two steps, *)
(* and the constructor reads a file.                                       *)
(***************************************************************************)
Callers == 3

\* gl: _spotify_cache is the module global (None, or the number of the
\* instance); created counts the SpotifyCache instances constructed; per thread
\* pc is "call", "construct", "assign", "return" or "done", new the instance it
\* constructed and ret what its call returned
InitSingleton ==
    /\ FileCacheInit({<<>>})
    /\ obs = NoObs
    /\ setCalls = 0
    /\ px = PxIdle
    /\ sr = SrIdle
    /\ sg = SgIdle
    /\ wf = WfIdle
    /\ th = ThIdle
    /\ pf = PfIdle
    /\ ld = LdIdle
    /\ gl = [_spotify_cache |-> NoneV, created |-> 0,
             threads |-> [t \in 1..Callers |-> [pc |-> "call", new |-> NoneV, ret |-> NoneV]]]

\* what the threads in get_spotify_cache leave alone
singletonFrame == <<cacheVars, now, obs, setCalls, px, sr, sg, wf, th, pf, ld>>

\* `if _spotify_cache is None:`
GetCheck ==
    \E t \in 1..Callers :
        /\ gl.threads[t].pc = "call"
        /\ gl' = [gl EXCEPT !.threads[t].pc =
                      IF gl._spotify_cache = NoneV THEN "construct" ELSE "return"]
        /\ UNCHANGED singletonFrame

\* `SpotifyCache()`: a new instance
GetConstruct ==
    \E t \in 1..Callers :
        /\ gl.threads[t].pc = "construct"
        /\ gl' = [gl EXCEPT !.created = @ + 1,
                            !.threads[t].new = [instance |-> gl.created + 1],
                            !.threads[t].pc = "assign"]
        /\ UNCHANGED singletonFrame

\* `_spotify_cache = ...`
GetAssign ==
    \E t \in 1..Callers :
        /\ gl.threads[t].pc = "assign"
        /\ gl' = [gl EXCEPT !._spotify_cache = gl.threads[t].new,
                            !.threads[t].pc = "return"]
        /\ UNCHANGED singletonFrame

\* `return _spotify_cache`
GetReturn ==
    \E t \in 1..Callers :
        /\ gl.threads[t].pc = "return"
        /\ gl' = [gl EXCEPT !.threads[t].ret = gl._spotify_cache,
                            !.threads[t].pc = "done"]
        /\ UNCHANGED singletonFrame

NextSingleton ==
    \/ GetCheck
    \/ GetConstruct
    \/ GetAssign
    \/ GetReturn
SpecSingleton == InitSingleton /\ [][NextSingleton]_vars

(***************************************************************************)
(* SpecDuration: spotify.duration_similarity(zing_duration, spotify_ms),   *)
(* applied to chart duration texts and catalog durations. A float result   *)
(* is the fraction [num, den] it rounds.                                   *)
(***************************************************************************)
\* str.split(":"): cur is the piece read so far
RECURSIVE SplitColon(_, _)
SplitColon(chars, cur) ==
    IF chars = <<>> THEN <<cur>>
    ELSE IF Head(chars) = ":" THEN <<cur>> \o SplitColon(Tail(chars), <<>>)
    ELSE SplitColon(Tail(chars), Append(cur, Head(chars)))

Digits == <<"0", "1", "2", "3", "4", "5", "6", "7", "8", "9">>
IsDigit(c) == \E d \in 1..10 : Digits[d] = c
DigitValue(c) == (CHOOSE d \in 1..10 : Digits[d] = c) - 1
RECURSIVE DecimalValue(_)
DecimalValue(ds) ==
    IF ds = <<>> THEN 0
    ELSE 10 * DecimalValue(SubSeq(ds, 1, Len(ds) - 1)) + DigitValue(ds[Len(ds)])
\* A Python int value (so that it can be compared with None), and the
\* ValueError int() raises
IntV(n) == [int |-> n]
ValueError == [error |-> "ValueError"]
\* int(text): blanks around are dropped, one sign may lead, digits must follow;
\* anything else is a ValueError
int(text) ==
    LET s == Strip(text)
        signed == s # <<>> /\ Head(s) \in {"-", "+"}
        ds == IF signed THEN Tail(s) ELSE s
    IN  IF ds = <<>> \/ \E i \in 1..Len(ds) : ~IsDigit(ds[i]) THEN ValueError
        ELSE IF signed /\ Head(s) = "-" THEN IntV(0 - DecimalValue(ds))
        ELSE IntV(DecimalValue(ds))

\* duration_to_seconds: seconds of "M:SS" or "H:MM:SS", else None
duration_to_seconds(duration_str) ==
    IF duration_str = <<>> THEN NoneV
    ELSE LET parts == SplitColon(duration_str, <<>>)
             n == [i \in 1..Len(parts) |-> int(parts[i])]
         IN  IF Len(parts) = 2
             THEN IF n[1] = ValueError \/ n[2] = ValueError THEN NoneV
                  ELSE IntV(n[1].int * 60 + n[2].int)
             ELSE IF Len(parts) = 3
             THEN IF n[1] = ValueError \/ n[2] = ValueError \/ n[3] = ValueError THEN NoneV
                  ELSE IntV(n[1].int * 3600 + n[2].int * 60 + n[3].int)
             ELSE NoneV

\* a float that is num / den exactly
Float(num, den) == [num |-> num, den |-> den]
Abs(x) == IF x < 0 THEN 0 - x ELSE x
Max(a, b) == IF a >= b THEN a ELSE b

\* duration_similarity that rounds the catalog duration up to whole seconds
duration_similarity_round_up(zing_duration, spotify_ms) ==
    LET zing_sec == duration_to_seconds(zing_duration)
        spotify_sec == (spotify_ms + 999) \div 1000
    IN  IF zing_sec = NoneV THEN Float(1, 2)
        ELSE IF zing_sec = IntV(0) THEN Float(1, 2)
        ELSE IF spotify_sec = 0 THEN Float(1, 2)
        ELSE LET diff == Abs(zing_sec.int - spotify_sec)
                 max_duration == Max(zing_sec.int, spotify_sec)
             IN  IF max_duration - diff < 0 THEN Float(0, 1)
                 ELSE Float(max_duration - diff, max_duration)

\* duration_similarity: 1.0 - diff / max_duration is (max_duration - diff) /
\* max_duration (max_duration is positive whenever spotify_ms is not negative)
duration_similarity(zing_duration, spotify_ms) ==
    LET zing_sec == duration_to_seconds(zing_duration)
        spotify_sec == spotify_ms \div 1000
    IN  IF zing_sec = NoneV THEN Float(1, 2)
        ELSE IF zing_sec = IntV(0) THEN Float(1, 2)
        ELSE IF spotify_sec = 0 THEN Float(1, 2)
        ELSE LET diff == Abs(zing_sec.int - spotify_sec)
                 max_duration == Max(zing_sec.int, spotify_sec)
             IN  IF max_duration - diff < 0 THEN Float(0, 1)
                 ELSE Float(max_duration - diff, max_duration)

\* The duration texts of chart entries and the duration_ms of catalog tracks
ChartDurations ==
    { <<>>,
      <<"3", ":", "0", "0">>,
      <<"0", ":", "0", "0">>,
      <<"1", ":", "3", "0">>,
      <<"3", ":", "2", "0">>,
      <<"1", ":", "0", "2", ":", "0", "3">>,
      <<"0", ":", "0", ":", "0">>,
      <<"x", ":", "0", "0">>,
      <<"3", ":">>,
      <<"3", ":", "0", "x">>,
      <<"1", "8", "0">>,
      <<"1", ":", "2", ":", "3", ":", "4">>,
      <<" ", "3", ":", "0", "0">>,
      <<"-", "1", ":", "3", "0">> }
CatalogDurations == {0, 500, 999, 1000, 90000, 179999, 180000, 200999, 3723000}

InitDuration ==
    /\ FileCacheInit({<<>>})
    /\ obs = NoObs
    /\ setCalls = 0
    /\ px = PxIdle
    /\ sr = SrIdle
    /\ sg = SgIdle
    /\ wf = WfIdle
    /\ th = ThIdle
    /\ gl = GlIdle
    /\ ld = LdIdle
    /\ \E d \in ChartDurations, ms \in CatalogDurations :
          pf = [pc |-> "call", zing_duration |-> d, spotify_ms |-> ms]

\* calculate_match_score: duration_sim = duration_similarity(...)
DurationApply ==
    /\ pf.pc = "call"
    /\ pf' = [pf EXCEPT !.pc = "done"] @@
              [zing_sec |-> duration_to_seconds(pf.zing_duration),
               out |-> duration_similarity(pf.zing_duration, pf.spotify_ms)]
    /\ UNCHANGED <<cacheVars, now, obs, setCalls, px, sr, sg, wf, th, gl, ld>>

NextDuration == DurationApply
SpecDuration == InitDuration /\ [][NextDuration]_vars

(***************************************************************************)
(* SpecTrending: the trending order of sync_to_playlists, applied to the   *)
(* result lists of up to MaxResults entries.                               *)
(***************************************************************************)
MaxResults == 3
Ranks == {1, 2, 3}
Popularities == {10, 40, 70}
\* The SyncResult of the i-th entry of a chart: matched with a track of its own,
\* or not matched
ResultOf(i, e) ==
    from_song_and_spotify(Song(e.rank, <<"s">>, <<"X">>),
        IF e.found THEN Found([track |-> Cand(<<"u", i>>, 100, e.popularity), score |-> 100])
        ELSE NoneV)
\* what the entries of a chart of n entries can be
Entries(n) == [1..n -> [rank : Ranks, popularity : Popularities, found : BOOLEAN]]

InitTrending ==
    /\ FileCacheInit({<<>>})
    /\ obs = NoObs
    /\ setCalls = 0
    /\ px = PxIdle
    /\ sr = SrIdle
    /\ sg = SgIdle
    /\ wf = WfIdle
    /\ th = ThIdle
    /\ gl = GlIdle
    /\ ld = LdIdle
    /\ \E n \in 0..MaxResults :
          \E es \in Entries(n) :
              pf = [pc |-> "call", results |-> [i \in 1..n |-> ResultOf(i, es[i])]]

\* lines 191-216: `if found_results:` the trending order is computed
TrendingApply ==
    /\ pf.pc = "call"
    /\ pf' = [pc |-> "done", results |-> pf.results,
              out |-> IF SelectSeq(pf.results, found) # <<>>
                      THEN trending_uris(pf.results) ELSE NoneV]
    /\ UNCHANGED <<cacheVars, now, obs, setCalls, px, sr, sg, wf, th, gl, ld>>

NextTrending == TrendingApply
SpecTrending == InitTrending /\ [][NextTrending]_vars

(***************************************************************************)
(* SpecFetch: fetch_vietnam_proxies applied to what its two sources        *)
(* answer, in either completion order.                                     *)
(***************************************************************************)
\* the longest list a source answers with
MaxRecords == 2
\* the proxies a source can list: with and without ip and port
RawRecords ==
    { ProxyA, ProxyB, [ip |-> "", port |-> "80"], [ip |-> "10.0.0.1", port |-> ""] }
\* what the request to a source ends in: an exception or a status other than
\* 200 (ok = FALSE), or the list it answers with
SourceAnswers ==
    {[ok |-> FALSE, records |-> <<>>]} \cup
    {[ok |-> TRUE, records |-> r] : r \in UNION {[1..n -> RawRecords] : n \in 0..MaxRecords}}
\* _fetch_from_proxyscrape / _fetch_from_free_proxy_list: the records tagged
\* with the source; [] when the request failed
_fetch_from(answer, tag) ==
    IF answer.ok THEN [i \in 1..Len(answer.records) |-> Src(answer.records[i], tag)]
    ELSE <<>>

InitFetch ==
    /\ FileCacheInit({<<>>})
    /\ obs = NoObs
    /\ setCalls = 0
    /\ px = PxIdle
    /\ sr = SrIdle
    /\ sg = SgIdle
    /\ wf = WfIdle
    /\ th = ThIdle
    /\ gl = GlIdle
    /\ ld = LdIdle
    /\ \E a \in SourceAnswers, b \in SourceAnswers, aFirst \in BOOLEAN :
          pf = [pc |-> "call", proxyscrape |-> a, free_proxy_list |-> b, aFirst |-> aFirst]

\* fetch_vietnam_proxies(): both futures complete, in one order or the other
FetchApply ==
    /\ pf.pc = "call"
    /\ LET a == _fetch_from(pf.proxyscrape, "proxyscrape")
           b == _fetch_from(pf.free_proxy_list, "free-proxy-list")
           all_proxies == IF pf.aFirst THEN a \o b ELSE b \o a
       IN  pf' = [pf EXCEPT !.pc = "done"] @@
                 [all_proxies |-> all_proxies,
                  out |-> IF pf.aFirst THEN fetch_vietnam_proxies(a, b)
                          ELSE fetch_vietnam_proxies(b, a)]
    /\ UNCHANGED <<cacheVars, now, obs, setCalls, px, sr, sg, wf, th, gl, ld>>

NextFetch == FetchApply
SpecFetch == InitFetch /\ [][NextFetch]_vars

(***************************************************************************)
(* SpecPlaylist: spotify.update_playlist(sp, playlist_id, track_uris) on a *)
(* playlist of the remote side, every remote call succeeding.              *)
(***************************************************************************)
\* PLAYLIST_BATCH_SIZE (100 in config.py), scaled down
PLAYLIST_BATCH_SIZE == 2
\* the longest track_uris
MaxUris == 6
\* the URIs of track_uris: "" (as None, falsy) and two tracks
UriValues == { <<>>, <<"u", "1">>, <<"u", "2">> }
\* what the playlist holds before the call
OldPlaylists == { <<>>, <<<<"u", "9">>, <<"u", "1">>, <<"u", "8">>>> }

\* The remote side: the playlist's tracks, and the calls received
RemoteCall(s, api, uris) ==
    [playlist |-> IF api = "playlist_replace_items" THEN uris ELSE s.playlist \o uris,
     calls |-> Append(s.calls, [api |-> api, uris |-> uris])]

\* for i in range(PLAYLIST_BATCH_SIZE, len(valid_uris), PLAYLIST_BATCH_SIZE):
\*     sp.playlist_add_items(playlist_id, valid_uris[i : i + PLAYLIST_BATCH_SIZE])
RECURSIVE add_rest(_, _, _)
add_rest(s, uris, i) ==
    IF i >= Len(uris) THEN s
    ELSE add_rest(RemoteCall(s, "playlist_add_items",
                             SubSeq(uris, i + 1, Min(i + PLAYLIST_BATCH_SIZE, Len(uris)))),
                  uris, i + PLAYLIST_BATCH_SIZE)

\* update_playlist that sends the first batch only
update_playlist_first_batch(playlist, track_uris) ==
    LET uris == valid_uris(track_uris)
        s == [playlist |-> playlist, calls |-> <<>>]
    IN  IF uris = <<>> THEN s @@ [ret |-> 0]
        ELSE RemoteCall(s, "playlist_replace_items",
                        SubSeq(uris, 1, Min(PLAYLIST_BATCH_SIZE, Len(uris))))
             @@ [ret |-> Len(uris)]

\* update_playlist: [playlist, calls, ret]
update_playlist(playlist, track_uris) ==
    LET uris == valid_uris(track_uris)
        s == [playlist |-> playlist, calls |-> <<>>]
    IN  IF uris = <<>> THEN s @@ [ret |-> 0]
        ELSE LET s1 == RemoteCall(s, "playlist_replace_items",
                                  SubSeq(uris, 1, Min(PLAYLIST_BATCH_SIZE, Len(uris))))
             IN  (IF Len(uris) > PLAYLIST_BATCH_SIZE
                  THEN add_rest(s1, uris, PLAYLIST_BATCH_SIZE)
                  ELSE s1) @@ [ret |-> Len(uris)]

InitPlaylist ==
    /\ FileCacheInit({<<>>})
    /\ obs = NoObs
    /\ setCalls = 0
    /\ px = PxIdle
    /\ sr = SrIdle
    /\ sg = SgIdle
    /\ wf = WfIdle
    /\ th = ThIdle
    /\ gl = GlIdle
    /\ ld = LdIdle
    /\ \E old \in OldPlaylists, n \in 0..MaxUris :
          \E track_uris \in [1..n -> UriValues] :
              pf = [pc |-> "call", old |-> old, track_uris |-> track_uris]

PlaylistApply ==
    /\ pf.pc = "call"
    /\ pf' = [pf EXCEPT !.pc = "done"] @@ update_playlist(pf.old, pf.track_uris)
    /\ UNCHANGED <<cacheVars, now, obs, setCalls, px, sr, sg, wf, th, gl, ld>>

NextPlaylist == PlaylistApply
SpecPlaylist == InitPlaylist /\ [][NextPlaylist]_vars

\* A future of search_with_index(i, songs[i])
\*   st: "queued", "searching" (cache miss, remote search under way), "done"
\*   fut: what the task returned; raw: what search_spotify returned
\*   remote: search_spotify_single was called; failed: and every sp.search call raised
\*   afterNeg: when the task looked into the cache, the last write for its key was a
\*             negative result still within the TTL
\*   afterFail: and that negative result came from a search whose every call raised
NewSearch ==
    [st |-> "queued", fut |-> NoneV, raw |-> NoneV, remote |-> FALSE, failed |-> FALSE,
     afterNeg |-> FALSE, afterFail |-> FALSE]

SrInit(songs) ==
    [pc |-> "call", songs |-> songs, tasks |-> <<>>, yielded |-> {},
     results |-> <<>>, writes |-> <<>>, cache_hits |-> 0, cache_misses |-> 0,
     callbacks |-> <<>>,   \* the calls of progress_callback, in the order made
     output |-> <<>>,
     negAt |-> [k \in SongKeys(songs) |-> -1],  \* when a negative result was last written
                                                 \* for the key in this run (-1: it was not,
                                                 \* or a match was written since)
     failAt |-> [k \in SongKeys(songs) |-> -1], \* the same, the negative result being that
                                                 \* of a search whose every call raised
     keys0 |-> KeysOf(_cache)]                   \* the keys of the cache when the run began

\* run_chart_sync
\*   pc: "entry", "fetch", "client", "search", "export", "playlists", "returned", "raised"
\*   log: the chart fetches over the network, the client creation, the token refresh
\*        and the export, in the order made
\*   progress: the calls stats_callback passed on to the caller's progress_callback
\*   plan / playlist_ops: the playlist calls sync_to_playlists is to make / has made
WfInit(cfg) ==
    [pc |-> "entry", cfg |-> cfg, output |-> SyncOutput, songs |-> NoneV,
     log |-> <<>>, progress |-> <<>>, plan |-> <<>>, playlist_ops |-> <<>>]

\* run_chart_sync at line 289, called without playlist and export
PlainCfg ==
    Cfg(TRUE, TRUE, FALSE, "local", NoneV, Str(<<>>), Str(<<>>), FALSE, NoneV, TRUE)
WfSearch(songs) ==
    [WfInit(PlainCfg) EXCEPT !.pc = "search", !.songs = songs,
                             !.output.stats.total_songs = Len(songs),
                             !.log = <<"client">>]

InitSearch ==
    /\ FileCacheInit(InitSearchFiles)
    /\ obs = NoObs
    /\ setCalls = 0
    /\ px = PxIdle
    /\ sg = SgIdle
    /\ Idle3
    /\ \E songs \in SongLists :
          /\ sr = SrInit(songs)
          /\ wf = WfSearch(songs)

\* results = [None] * len(songs); submit search_with_index(i, song) for every entry
SearchSubmit ==
    /\ sr.pc = "call"
    /\ sr' = [sr EXCEPT !.pc = "loop",
                        !.results = [i \in 1..Len(sr.songs) |-> NoneV],
                        !.writes = [i \in 1..Len(sr.songs) |-> 0],
                        !.tasks = [i \in 1..Len(sr.songs) |-> NewSearch]]
    /\ UNCHANGED <<cacheVars, now, obs, setCalls, px, sg, wf, th, gl, pf, ld>>

\* A worker takes the next task: search_spotify looks into the cache; a hit returns
\* (after the sleep), a miss goes on to search_spotify_single
SearchStart ==
    \E i \in DOMAIN sr.tasks :
        /\ sr.tasks[i].st = "queued"
        /\ \A j \in 1..(i - 1) : sr.tasks[j].st # "queued"
        /\ Cardinality({j \in DOMAIN sr.tasks : sr.tasks[j].st = "searching"})
              < SPOTIFY_SEARCH_WORKERS
        /\ LET song == sr.songs[i]
               k == song_key(song.name, song.artists)
               r == get_song(Self, song.name, song.artists, now)
               neg == sr.negAt[k] >= 0 /\ now <= sr.negAt[k] + ttl_minutes
               fail == sr.failAt[k] >= 0 /\ now <= sr.failAt[k] + ttl_minutes
           IN  /\ Install(r.self)
               /\ sr' = IF cache_hit(r.ret)
                        THEN [sr EXCEPT !.tasks[i] =
                                 [st |-> "done", fut |-> with_index(i, r.ret, TRUE),
                                  raw |-> r.ret, remote |-> FALSE, failed |-> FALSE,
                                  afterNeg |-> neg, afterFail |-> fail]]
                        ELSE [sr EXCEPT !.tasks[i] =
                                 [st |-> "searching", fut |-> NoneV, raw |-> NoneV,
                                  remote |-> TRUE, failed |-> FALSE, afterNeg |-> neg,
                                  afterFail |-> fail]]
        /\ UNCHANGED <<diskOk, now, obs, setCalls, px, sg, wf, th, gl, pf, ld>>

\* search_spotify_single returns; search_spotify caches the result and the task
\* returns (after the sleep)
SearchFinish ==
    \E i \in DOMAIN sr.tasks, plan \in RemotePlans :
        /\ sr.tasks[i].st = "searching"
        /\ LET song == sr.songs[i]
               k == song_key(song.name, song.artists)
               single == search_spotify_single(song, plan)
               result == single.ret
           IN  /\ Install(search_spotify_store(Self, song, result, now))
               /\ sr' = [sr EXCEPT !.tasks[i].st = "done",
                                   !.tasks[i].fut = with_index(i, result, FALSE),
                                   !.tasks[i].raw = result,
                                   !.tasks[i].failed = AllFailed(single.calls),
                                   !.negAt[k] = IF result = NoneV THEN now ELSE -1,
                                   !.failAt[k] = IF result = NoneV /\ AllFailed(single.calls)
                                                 THEN now ELSE -1]
        /\ UNCHANGED <<diskOk, now, obs, setCalls, px, sg, wf, th, gl, pf, ld>>

\* One iteration of `for future in as_completed(futures)`; the callback is
\* run_chart_sync's stats_callback
SearchLoop ==
    \E i \in DOMAIN sr.tasks :
        /\ sr.pc = "loop"
        /\ sr.tasks[i].st = "done"
        /\ i \notin sr.yielded
        /\ LET fut == sr.tasks[i].fut
               slot == result_slot(fut, sr.yielded)
               writes == [sr.writes EXCEPT ![slot] = @ + 1]
           IN  /\ sr' = [sr EXCEPT !.results[slot] = fut.result,
                                   !.writes = writes,
                                   !.cache_hits = IF fut.was_cached THEN @ + 1 ELSE @,
                                   !.cache_misses = IF fut.was_cached THEN @ ELSE @ + 1,
                                   !.callbacks = invoke_callback(@, fut.index,
                                                     sr.songs[fut.index], fut.result,
                                                     fut.was_cached, writes[fut.index] > 0),
                                   !.yielded = @ \cup {i}]
               /\ wf' = [wf EXCEPT !.output = stats_callback(@, fut.index,
                                                  sr.songs[fut.index], fut.result,
                                                  fut.was_cached),
                                   !.progress = forward_progress(@, wf.cfg.progress_callback,
                                                    fut.index, fut.was_cached)]
        /\ UNCHANGED <<cacheVars, now, obs, setCalls, px, sg, th, gl, pf, ld>>

\* The loop and the `with` block end; return results
SearchReturn ==
    /\ sr.pc = "loop"
    /\ sr.yielded = DOMAIN sr.tasks
    /\ sr' = [sr EXCEPT !.pc = "returned"]
    /\ UNCHANGED <<cacheVars, now, obs, setCalls, px, sg, wf, th, gl, pf, ld>>

\* run_chart_sync: output.results, output.track_uris = build_sync_results(...);
\* output.stats.songs_found
BuildResults ==
    /\ sr.pc = "returned"
    /\ wf.pc = "search"
    /\ LET results == build_sync_results(sr.songs, sr.results)
       IN  /\ sr' = [sr EXCEPT !.pc = "built", !.output = results]
           /\ wf' = [wf EXCEPT !.pc = "export",
                               !.output.results = results,
                               !.output.track_uris = track_uris_of(results),
                               !.output.stats.songs_found =
                                   Len(SelectSeq(results, found))]
    /\ UNCHANGED <<cacheVars, now, obs, setCalls, px, sg, th, gl, pf, ld>>

\* The clock advances while the searches run
TickSearch ==
    /\ sr.pc \in {"call", "loop"}
    /\ Tick

NextSearch ==
    \/ SearchSubmit
    \/ SearchStart
    \/ SearchFinish
    \/ SearchLoop
    \/ SearchReturn
    \/ BuildResults
    \/ TickSearch

SpecSearch == InitSearch /\ [][NextSearch]_vars

(***************************************************************************)
(* SpecSync: one run_chart_sync call from its entry to its return or to    *)
(* the exception it lets through, the search phase being                   *)
(* search_songs_concurrent as above.                                       *)
(***************************************************************************)
PlaylistP == Str(<<"P">>)
PlaylistS == Str(<<"S">>)
PlaylistT == Str(<<"T">>)
ExcelFile == Str(<<"o", ".", "x">>)
\* The runs: environments and arguments
SyncConfigs ==
    { Cfg(FALSE, TRUE, TRUE, "live", PlaylistP, PlaylistS, PlaylistT, TRUE, ExcelFile, TRUE),
      Cfg(TRUE, FALSE, FALSE, "vpn", NoneV, Str(<<>>), Str(<<>>), FALSE, ExcelFile, FALSE),
      Cfg(TRUE, TRUE, FALSE, "live", PlaylistP, PlaylistS, PlaylistT, TRUE, ExcelFile, TRUE),
      Cfg(TRUE, TRUE, FALSE, "local", PlaylistP, Str(<<>>), Str(<<>>), TRUE, NoneV, TRUE),
      Cfg(TRUE, TRUE, TRUE, "live", PlaylistP, PlaylistS, PlaylistT, TRUE, ExcelFile, TRUE),
      Cfg(TRUE, TRUE, FALSE, "vpn", PlaylistP, Str(<<>>), PlaylistT, FALSE, NoneV, FALSE),
      Cfg(TRUE, TRUE, FALSE, "local", NoneV, PlaylistS, PlaylistT, FALSE, ExcelFile, TRUE),
      Cfg(TRUE, TRUE, TRUE, "live", Str(<<>>), PlaylistS, Str(<<>>), TRUE, NoneV, TRUE) }

\* What a chart fetch or the saved chart file can give
SyncCharts ==
    { NoneV, <<>>,
      <<Song(1, <<"A", "b">>, <<"X">>), Song(2, <<"b">>, <<>>)>>,
      <<Song(1, <<"A", "b">>, <<"X">>), Song(2, <<" ", "a", "b">>, <<"x", " ">>)>> }

\* search_songs_concurrent not called yet
SrOff == [SrInit(<<>>) EXCEPT !.pc = "off"]

InitSync ==
    /\ FileCacheInit(InitSearchFiles)
    /\ obs = NoObs
    /\ setCalls = 0
    /\ px = PxIdle
    /\ sg = SgIdle
    /\ sr = SrOff
    /\ Idle3
    /\ \E cfg \in SyncConfigs : wf = WfInit(cfg)

\* lines 258-264: check credentials
CheckCredentials ==
    /\ wf.pc = "entry"
    /\ wf' = IF ~wf.cfg.client_id \/ ~wf.cfg.client_secret
             THEN [wf EXCEPT !.pc = "returned"]
             ELSE [wf EXCEPT !.pc = "fetch"]
    /\ UNCHANGED <<cacheVars, now, obs, setCalls, px, sr, sg, th, gl, pf, ld>>

\* lines 266-272: fetch the chart
FetchChart ==
    /\ wf.pc = "fetch"
    /\ \E is_weekly \in BOOLEAN, remote \in SyncCharts, local \in SyncCharts :
          LET r == fetch_chart_songs(wf.cfg.mode, is_weekly, remote, local)
              log == IF r.net THEN Append(wf.log, "chart_fetch") ELSE wf.log
          IN  wf' = IF no_songs(r.songs)
                    THEN [wf EXCEPT !.pc = "returned", !.songs = r.songs, !.log = log]
                    ELSE [wf EXCEPT !.pc = "client", !.songs = r.songs, !.log = log,
                                    !.output.stats.total_songs = Len(r.songs)]
    /\ UNCHANGED <<cacheVars, now, obs, setCalls, px, sr, sg, th, gl, pf, ld>>

\* lines 274-290: create the client; search_songs_concurrent is called
InitSpotify ==
    /\ wf.pc = "client"
    /\ \E refresh_ok \in BOOLEAN :
          LET r == get_spotify_client_for_mode(NonEmpty(wf.cfg.playlist_name),
                       wf.cfg.headless, wf.cfg.refresh_token, refresh_ok)
          IN  IF r.raised
              THEN /\ wf' = [wf EXCEPT !.pc = "raised", !.log = @ \o r.log]
                   /\ UNCHANGED sr
              ELSE /\ wf' = [wf EXCEPT !.pc = "search", !.log = @ \o r.log]
                   /\ sr' = SrInit(wf.songs)
    /\ UNCHANGED <<cacheVars, now, obs, setCalls, px, sg, th, gl, pf, ld>>

\* lines 296-312: export; sync_to_playlists is called when a playlist was asked for
\* and there are track URIs
ExportResults ==
    /\ wf.pc = "export"
    /\ wf' = [wf EXCEPT !.pc = "playlists",
                        !.log = IF NonEmpty(wf.cfg.output_file) THEN Append(@, "export")
                                ELSE @,
                        !.plan = IF NonEmpty(wf.cfg.playlist_name)
                                    /\ wf.output.track_uris # <<>>
                                 THEN playlist_plan(wf.output.results, wf.output.track_uris,
                                          wf.cfg.playlist_name,
                                          wf.cfg.sorted_playlist_name,
                                          wf.cfg.trending_playlist_name)
                                 ELSE <<>>]
    /\ UNCHANGED <<cacheVars, now, obs, setCalls, px, sr, sg, th, gl, pf, ld>>

\* sync_to_playlists: its next call, which succeeds or raises; update_playlist sends
\* the valid URIs, nothing when there is none
PlaylistCall ==
    /\ wf.pc = "playlists"
    /\ wf.plan # <<>>
    /\ \E ok \in BOOLEAN :
          LET op == Head(wf.plan)
              sent == IF op.fn = "update_playlist" THEN valid_uris(op.uris) ELSE <<>>
          IN  wf' = IF ok
                    THEN [wf EXCEPT !.plan = Tail(@),
                                    !.playlist_ops = Append(@,
                                        [fn |-> op.fn, kind |-> op.kind, name |-> op.name,
                                         uris |-> sent, wrote |-> sent # <<>>])]
                    ELSE [wf EXCEPT !.pc = "raised"]
    /\ UNCHANGED <<cacheVars, now, obs, setCalls, px, sr, sg, th, gl, pf, ld>>

\* line 314: return output
SyncReturn ==
    /\ wf.pc = "playlists"
    /\ wf.plan = <<>>
    /\ wf' = [wf EXCEPT !.pc = "returned"]
    /\ UNCHANGED <<cacheVars, now, obs, setCalls, px, sr, sg, th, gl, pf, ld>>

NextSync ==
    \/ CheckCredentials
    \/ FetchChart
    \/ InitSpotify
    \/ SearchSubmit
    \/ SearchStart
    \/ SearchFinish
    \/ SearchLoop
    \/ SearchReturn
    \/ BuildResults
    \/ ExportResults
    \/ PlaylistCall
    \/ SyncReturn

SpecSync == InitSync /\ [][NextSync]_vars

(***************************************************************************)
(* FileCache claims (checked under Spec)                                   *)
(***************************************************************************)
\* an item whose age is within the TTL at clock t
Fresh(e, t) == e.cached_at # Malformed /\ t <= e.cached_at + ttl_minutes

C3_State ==
    /\ (obs.op = "get" /\ obs.prevSet # NoneV) => obs.ret = obs.prevSet
    /\ (obs.op = "get" /\ obs.preHad /\ obs.preAt # Malformed
            /\ obs.at > obs.preAt + ttl_minutes)
        => (obs.ret = NoneV /\ ~Has(_cache, obs.key))
    /\ obs.op = "keys"
        => \A i \in 1..Len(obs.ret.keys) :
              /\ Has(_cache, obs.ret.keys[i])
              /\ Fresh(Lookup(_cache, obs.ret.keys[i]), obs.at)
C3_Step ==
    \A k \in Keys :
        (~Has(_cache, k) /\ Has(_cache', k)) => (obs'.op = "set" /\ obs'.key = k)
\* C3: get(k) right after set(k, v) returns v; a get(k) made more than the TTL after
\* the entry's timestamp returns None and leaves k out of the mapping; keys() lists
\* only keys whose entry is within its TTL, and a key that is out of the mapping
\* comes back only by a set of that key.
C3_CacheTTL == [](C3_State) /\ [][C3_Step]_vars
C3_Witness ==
    /\ obs.op = "get" /\ obs.preHad /\ obs.preAt # Malformed
    /\ obs.at > obs.preAt + ttl_minutes
    /\ obs.ret = NoneV /\ ~Has(_cache, obs.key)

\* C4: counting set calls from a cache with no pending writes (and from every
\* flush), a set call rewrites the file exactly when it is the batch_size-th; the
\* file then equals the mapping and the counter is 0. After 1..batch_size-1 set
\* calls a flush() leaves the file equal to the mapping.
C4_BatchFlush ==
    /\ obs.op = "set" =>
          /\ obs.wrote <=> (obs.preSetCalls + 1 = batch_size)
          /\ obs.wrote => (file = _cache /\ fstat = "ok" /\ _pending_writes = 0)
    /\ (obs.op = "flush" /\ obs.preSetCalls \in 1..(batch_size - 1))
        => (obs.wrote /\ file = _cache /\ fstat = "ok" /\ _pending_writes = 0)
C4_Witness ==
    /\ obs.op = "set" /\ obs.preSetCalls + 1 = batch_size
    /\ obs.wrote /\ file = _cache /\ Len(_cache) > 0

\* C5 as stated: every item of the file is in the mapping with the same entry, and
\* after any flush() the file equals the mapping.
C5_Original ==
    /\ fstat = "ok" =>
          \A i \in 1..Len(file) :
              Has(_cache, file[i].key) /\ Lookup(_cache, file[i].key) = file[i]
    /\ obs.op = "flush" => (fstat = "ok" /\ file = _cache)
\* C5 amended: every item of the file that is within its TTL has its key in the
\* mapping, with that entry or one written no earlier; with no pending writes every
\* item of the mapping is in the file unchanged; a flush() made with writes pending
\* leaves the file equal to the mapping.
C5_FileVersusMemory ==
    /\ fstat = "ok" =>
          \A i \in 1..Len(file) :
              Fresh(file[i], now) =>
                  /\ Has(_cache, file[i].key)
                  /\ \/ Lookup(_cache, file[i].key) = file[i]
                     \/ /\ _pending_writes > 0
                        /\ Lookup(_cache, file[i].key).cached_at >= file[i].cached_at
    /\ _pending_writes = 0 =>
          \A i \in 1..Len(_cache) :
              /\ fstat = "ok"
              /\ Has(file, _cache[i].key)
              /\ Lookup(file, _cache[i].key) = _cache[i]
    /\ (obs.op = "flush" /\ obs.prePending > 0) => (fstat = "ok" /\ file = _cache)
C5_Witness ==
    /\ obs.op = "flush" /\ obs.prePending > 0 /\ file = _cache /\ Len(file) > 0

\* C20: after a normal exit every entry of the in-memory mapping (those written by set
\* among them) is in the cache file with the same value and timestamp, whatever the
\* number of writes pending at exit was.
C20_ExitFlush ==
    obs.op = "exit" =>
        /\ _pending_writes = 0
        /\ \A i \in 1..Len(_cache) :
              /\ fstat = "ok"
              /\ \E j \in 1..Len(file) : file[j] = _cache[i]
C20_Witness ==
    /\ obs.op = "exit"
    /\ obs.prePending = batch_size - 1 /\ obs.prePending > 0
    /\ obs.wrote
    /\ \E i \in 1..Len(_cache) : _cache[i].cached_at > 0

(***************************************************************************)
(* fetch_with_proxy_rotation claims (checked under SpecProxy)              *)
(***************************************************************************)
\* the validation criterion: status 200, content_check in the body, len >= min_size
ValidResponse(o) ==
    ~o.exc /\ o.status = 200 /\ Contains(o.text, content_check) /\ Len(o.text) >= min_size
\* the candidates that have issued their request
Requested == {i \in DOMAIN px.tasks : px.tasks[i].st \in {"running", "done"}}
HitDone(i) == px.tasks[i].st = "done" /\ HtmlTruthy(px.tasks[i].result.html)

\* C6: the proxy sources are queried only when every cached candidate (if any) has
\* completed its validation without success; while a cached candidate has validated
\* the call is in the cached loop or has returned, and no source has been queried.
C6_FreshOnlyAfterCachedFailed ==
    /\ px.queried => px.cachedFailed = px.nCached
    /\ (px.round = "cached" /\ \E i \in DOMAIN px.tasks : HitDone(i))
        => (~px.queried /\ px.pc \in {"cached_loop", "returned"})
    /\ (px.round = "cached" /\ px.pc = "returned") => (~px.queried /\ px.ret.html # NoneV)
C6_Witness ==
    /\ px.queried /\ px.nCached >= 2 /\ px.cachedFailed = px.nCached
    /\ px.pc = "fresh_loop"

\* C7: a returned body comes with the proxy it was fetched through, from a response
\* with status 200 whose body is that text, contains content_check and is at least
\* min_size long; body and proxy are both present or both absent.
C7_ReturnedBodyIsValid ==
    px.pc = "returned" =>
        /\ (px.ret.html = NoneV) <=> (px.ret.proxy = NoneV)
        /\ px.ret.html # NoneV =>
              \E i \in DOMAIN px.tasks :
                  /\ px.tasks[i].proxy = px.ret.proxy
                  /\ px.tasks[i].st = "done"
                  /\ ValidResponse(px.tasks[i].resp)
                  /\ px.ret.html = Str(px.tasks[i].resp.text)
C7_Witness ==
    /\ px.pc = "returned" /\ px.ret.html = Str(<<"x", "M">>)
    /\ px.ret.proxy # NoneV /\ px.round = "fresh"

C8_Bound ==
    px.cancelled => Cardinality(Requested) <= px.doneAtCancel + max_workers
C8_Step ==
    px.cancelled =>
        \A i \in DOMAIN px.tasks :
            px.tasks[i].st \in {"queued", "cancelled"} => px'.tasks[i].st = "cancelled"
\* C8: after the shutdown with cancellation no task that had not started starts
\* (none issues a request), and the number of candidates that have issued a request
\* stays within the validations finished at the cancellation plus max_workers.
C8_NoStartAfterCancel == [](C8_Bound) /\ [][C8_Step]_vars
C8_Witness ==
    /\ px.cancelled /\ Len(px.tasks) > max_workers
    /\ \E i \in DOMAIN px.tasks : px.tasks[i].st = "cancelled"
    /\ Cardinality(Requested) = px.doneAtCancel + max_workers
    /\ Cardinality(Requested) < Len(px.tasks)
    /\ \A i \in Requested : px.tasks[i].st = "done"

\* C9: when the cached round has ended (with a hit, or with every candidate failed),
\* no candidate whose failure was observed in the round is in the proxy cache.
C9_FailedCachedPurged ==
    (px.round = "cached" /\ px.pc \in {"returned", "fetch"}) =>
        \A j \in 1..Len(px.failed_proxies) :
            ~Has(_cache, make_key(px.failed_proxies[j].ip, px.failed_proxies[j].port))

\* C10: when the fresh round tested nothing (no candidates) or every candidate it
\* tested failed the criterion, the call returns (None, None) and the proxy cache
\* holds no entry it did not hold when the call began.
C10_NothingWorks ==
    (/\ px.pc = "returned" /\ px.round = "fresh"
     /\ \A i \in DOMAIN px.tasks :
            px.tasks[i].st = "done" /\ ~ValidResponse(px.tasks[i].resp))
    => /\ px.ret = [html |-> NoneV, proxy |-> NoneV]
       /\ \A i \in 1..Len(_cache) : \E j \in 1..Len(px.cache0) : px.cache0[j] = _cache[i]
C10_Witness ==
    /\ px.pc = "returned" /\ px.round = "fresh" /\ Len(px.tasks) = MAX_PROXY_TRIES
    /\ \A i \in DOMAIN px.tasks :
            px.tasks[i].st = "done" /\ ~ValidResponse(px.tasks[i].resp)
    /\ px.ret = [html |-> NoneV, proxy |-> NoneV]
    /\ px.nCached > 0

(***************************************************************************)
(* search_songs_concurrent claims (checked under SpecSearch)               *)
(***************************************************************************)
\* what search_with_index makes of search_spotify's result
Absent(raw) == raw = NoneV \/ raw = EmptyDict

\* C1: every result slot is written at most once while the loop runs; the returned
\* list has one element per entry, element i being what the search of entry i gave
\* (None for no match), each slot written exactly once; build_sync_results makes
\* record i from songs[i] and that result.
C1_OrderPreserved ==
    /\ \A i \in DOMAIN sr.writes :
          sr.writes[i] = (IF i \in sr.yielded THEN 1 ELSE 0)
    /\ sr.pc \in {"returned", "built"} =>
          /\ Len(sr.results) = Len(sr.songs)
          /\ \A i \in 1..Len(sr.songs) :
                /\ sr.writes[i] = 1
                /\ sr.tasks[i].st = "done"
                /\ sr.results[i] = (IF Absent(sr.tasks[i].raw) THEN NoneV ELSE sr.tasks[i].raw)
    /\ sr.pc = "built" =>
          /\ Len(sr.output) = Len(sr.songs)
          /\ \A i \in 1..Len(sr.songs) :
                /\ sr.output[i].rank = sr.songs[i].position
                /\ sr.output[i].song_name = sr.songs[i].name
                /\ sr.output[i].artists = sr.songs[i].artists
                /\ sr.output[i].track_uri =
                      (IF Absent(sr.tasks[i].raw) THEN <<>> ELSE sr.tasks[i].raw.track_uri)
C1_Witness ==
    /\ sr.pc = "loop" /\ Len(sr.songs) = 3
    /\ sr.yielded = {3} /\ sr.results[3] # NoneV
    /\ sr.tasks[1].st = "done" /\ sr.tasks[1].fut.result # sr.results[3]

\* C2: a search_spotify call that looks into the cache when the last write for its
\* key was a negative result still within the TTL is a cache hit: it makes no remote
\* search, reports was_cached, returns the {} sentinel, and the task returns None.
C2_NegativeCached ==
    \A i \in DOMAIN sr.tasks :
        (sr.tasks[i].afterNeg /\ sr.tasks[i].st # "queued") =>
            /\ sr.tasks[i].st = "done"
            /\ ~sr.tasks[i].remote
            /\ sr.tasks[i].fut.was_cached
            /\ sr.tasks[i].raw = EmptyDict
            /\ sr.tasks[i].fut.result = NoneV
C2_Witness ==
    \E i, j \in DOMAIN sr.tasks :
        /\ i # j
        /\ sr.tasks[i].st = "done" /\ sr.tasks[i].remote /\ sr.tasks[i].raw = NoneV
        /\ sr.tasks[j].st = "done" /\ sr.tasks[j].afterNeg /\ ~sr.tasks[j].remote
        /\ sr.tasks[j].fut.was_cached /\ sr.tasks[j].fut.result = NoneV
        /\ Cardinality({n \in DOMAIN sr.tasks : sr.tasks[n].remote}) = 1

(***************************************************************************)
(* search_spotify_single claims (checked under SpecSingle)                 *)
(***************************************************************************)
\* the calls made for the query of one strategy
CallsOf(strategy) == SelectSeq(sg.calls, LAMBDA c : c.strategy = strategy)
GotCandidates(c) == c.kind = "ok" /\ c.items > 0
\* the strategies an entry has: all three with an artist, the title alone without
Strategies(song) == IF song.artist_list # <<>> THEN {1, 2, 3} ELSE {3}

C12_CallsBounded ==
    sg.pc \in {"call", "done"} =>
        /\ \A s \in 1..3 : Len(CallsOf(s)) <= SPOTIFY_RETRY_ATTEMPTS
        /\ Len(sg.calls) <= 3 * SPOTIFY_RETRY_ATTEMPTS
C12_RetryBound == [](C12_CallsBounded) /\ <>(sg.pc = "done")
C12_Witness ==
    /\ sg.pc = "done"
    /\ Len(sg.calls) = 3 * SPOTIFY_RETRY_ATTEMPTS
    /\ \E i \in 1..Len(sg.calls) : sg.calls[i].kind = "rate"
    /\ \E i \in 1..Len(sg.calls) : sg.calls[i].kind = "error"

\* C14: in the sequence of progress callbacks no cache miss comes before a cache hit,
\* and the cache hits come in input order.
C14_HitsBeforeMisses ==
    \A a, b \in 1..Len(sr.callbacks) :
        a < b =>
            /\ ~(~sr.callbacks[a].was_cached /\ sr.callbacks[b].was_cached)
            /\ (sr.callbacks[a].was_cached /\ sr.callbacks[b].was_cached) =>
                  sr.callbacks[a].index < sr.callbacks[b].index

\* C15: the progress callback is called once for every future the loop has taken, never
\* twice for one index, with that index's entry, its result (None for no match or a
\* cached negative result), its cache flag, and after results[index] was assigned; when
\* search_songs_concurrent returns it was called exactly once for every input index.
C15_CallbackOncePerIndex ==
    /\ Len(sr.callbacks) = Cardinality(sr.yielded)
    /\ \A n \in 1..Len(sr.callbacks) :
          LET c == sr.callbacks[n]
          IN  /\ c.index \in sr.yielded
              /\ \A n2 \in 1..Len(sr.callbacks) : n2 # n => sr.callbacks[n2].index # c.index
              /\ c.song = sr.songs[c.index]
              /\ c.result = (IF Absent(sr.tasks[c.index].raw) THEN NoneV
                             ELSE sr.tasks[c.index].raw)
              /\ c.was_cached = ~sr.tasks[c.index].remote
              /\ c.written
              /\ sr.results[c.index] = c.result
    /\ sr.pc \in {"returned", "built"} =>
          {sr.callbacks[n].index : n \in 1..Len(sr.callbacks)} = 1..Len(sr.songs)
C15_Witness ==
    /\ sr.pc = "returned" /\ Len(sr.songs) = 3
    /\ sr.callbacks[1].index = 3
    /\ \E n \in 1..3 : sr.callbacks[n].was_cached /\ sr.callbacks[n].result = NoneV
    /\ \E n \in 1..3 : ~sr.callbacks[n].was_cached /\ sr.callbacks[n].result # NoneV

(***************************************************************************)
(* run_chart_sync claims (checked under SpecSync)                          *)
(***************************************************************************)
\* the run is past build_sync_results
Aggregated == wf.pc \in {"export", "playlists", "returned", "raised"} /\ sr.pc = "built"
Count(s, Test(_)) == Len(SelectSeq(s, Test))

\* C13: an entry whose every sp.search call raised gets the result None from its task;
\* the search phase lets no exception through; once the results are built every entry
\* was searched, the failed entry is in the output at its place with found = false,
\* and total_songs counts all the entries.
C13_FailedEntryKept ==
    /\ \A i \in DOMAIN sr.tasks :
          sr.tasks[i].failed =>
              /\ sr.tasks[i].st = "done"
              /\ sr.tasks[i].fut.result = NoneV
    /\ wf.pc = "raised" => sr.pc \in {"off", "built"}
    /\ Aggregated =>
          /\ wf.output.stats.total_songs = Len(wf.songs)
          /\ Len(wf.output.results) = Len(wf.songs)
          /\ \A i \in DOMAIN sr.tasks :
                /\ sr.tasks[i].st = "done"
                /\ sr.tasks[i].failed =>
                      /\ ~found(wf.output.results[i])
                      /\ wf.output.results[i].rank = wf.songs[i].position
                      /\ wf.output.results[i].song_name = wf.songs[i].name
C13_Witness ==
    /\ wf.pc = "returned" /\ sr.pc = "built"
    /\ Len(wf.songs) = 2
    /\ sr.tasks[1].failed /\ ~found(wf.output.results[1])
    /\ sr.tasks[2].remote /\ found(wf.output.results[2])

\* C16: from the search phase on total_songs is the number of chart entries and
\* cache_hits + cache_misses counts the entries reported so far, hits being the
\* reported entries with was_cached and misses those without; once the results are
\* built cache_hits + cache_misses = total_songs and songs_found <= total_songs.
C16_StatsAddUp ==
    sr.pc # "off" =>
        /\ wf.output.stats.total_songs = Len(wf.songs)
        /\ wf.output.stats.cache_hits =
              Cardinality({i \in sr.yielded : sr.tasks[i].fut.was_cached})
        /\ wf.output.stats.cache_misses =
              Cardinality({i \in sr.yielded : ~sr.tasks[i].fut.was_cached})
        /\ Aggregated =>
              /\ wf.output.stats.cache_hits + wf.output.stats.cache_misses
                    = wf.output.stats.total_songs
              /\ sr.yielded = 1..Len(wf.songs)
              /\ wf.output.stats.songs_found =
                    Cardinality({i \in 1..Len(wf.songs) : Truthy(sr.results[i])})
              /\ wf.output.stats.songs_found <= wf.output.stats.total_songs
C16_Witness ==
    /\ wf.pc = "returned" /\ Aggregated
    /\ wf.output.stats.total_songs = 2
    /\ wf.output.stats.cache_hits = 1 /\ wf.output.stats.cache_misses = 1
    /\ wf.output.stats.songs_found = 0

\* C17: a run without client id or secret, or without the refresh token in headless
\* playlist mode, makes no chart fetch over the network, creates no client, searches
\* nothing, and has no results, no export and no playlist call.
MissingConfiguration(cfg) ==
    \/ ~cfg.client_id
    \/ ~cfg.client_secret
    \/ (NonEmpty(cfg.playlist_name) /\ cfg.headless /\ ~cfg.refresh_token)
C17_FailsBeforeNetwork ==
    MissingConfiguration(wf.cfg) =>
        /\ wf.log = <<>>
        /\ sr.pc = "off"
        /\ wf.output = SyncOutput
        /\ wf.playlist_ops = <<>>

\* C18: a run whose chart fetch gave no entries returns the output as constructed
\* (no results, all statistics zero) and has created no client, searched nothing,
\* exported nothing and made no playlist call.
C18_EmptyChart ==
    (wf.pc \notin {"entry", "fetch"} /\ wf.cfg.client_id /\ wf.cfg.client_secret
        /\ (wf.songs = NoneV \/ wf.songs = <<>>)) =>
        /\ wf.pc = "returned"
        /\ wf.output = SyncOutput
        /\ \A n \in 1..Len(wf.log) : wf.log[n] = "chart_fetch"
        /\ sr.pc = "off"
        /\ wf.playlist_ops = <<>>
C18_Witness ==
    /\ wf.pc = "returned" /\ wf.songs = <<>> /\ wf.log = <<"chart_fetch">>
    /\ NonEmpty(wf.cfg.playlist_name) /\ NonEmpty(wf.cfg.output_file)

\* C19: a playlist call is made only when a playlist name was given and some entry has
\* a match, after every search task ended, the loop took every future and the results
\* were built; a call for the sorted or the trending playlist comes only after the main
\* playlist was written.
C19_PlaylistsLast ==
    /\ (wf.plan # <<>> \/ wf.playlist_ops # <<>>) =>
          /\ NonEmpty(wf.cfg.playlist_name)
          /\ \E i \in 1..Len(wf.songs) : Truthy(sr.results[i])
          /\ sr.pc = "built"
          /\ sr.yielded = 1..Len(wf.songs)
          /\ \A i \in DOMAIN sr.tasks : sr.tasks[i].st = "done"
          /\ Len(wf.output.results) = Len(wf.songs)
    /\ \A n \in 1..Len(wf.playlist_ops) :
          wf.playlist_ops[n].kind # "main" =>
              \E k \in 1..(n - 1) :
                  /\ wf.playlist_ops[k].kind = "main"
                  /\ wf.playlist_ops[k].fn = "update_playlist"
                  /\ wf.playlist_ops[k].wrote
C19_Witness ==
    /\ wf.pc = "returned"
    /\ Len(wf.playlist_ops) = 6
    /\ wf.playlist_ops[2].kind = "main" /\ wf.playlist_ops[2].wrote
    /\ wf.playlist_ops[4].kind = "sorted" /\ wf.playlist_ops[4].wrote
    /\ wf.playlist_ops[6].kind = "trending" /\ wf.playlist_ops[6].wrote
    /\ \E i \in 1..Len(wf.songs) : ~Truthy(sr.results[i])

\* C30: when the last attempt of a query does not succeed, _search_with_retry
\* raises to its caller instead of returning a value, after a rate-limit
\* answer as after any other error
C30_ExhaustionRaises ==
    sg.pc \in {"call", "done"} =>
        \A i \in 1..Len(sg.calls) :
            (sg.calls[i].attempt = SPOTIFY_RETRY_ATTEMPTS - 1 /\ sg.calls[i].kind # "ok")
                => sg.calls[i].out = "raise"

(***************************************************************************)
(* search_spotify claims (checked under SpecSearch)                        *)
(***************************************************************************)
KeyOf(i) == song_key(sr.songs[i].name, sr.songs[i].artists)
\* the cache holds an entry for k that has not expired
Unexpired(k) == Has(_cache, k) /\ ~_is_expired(Lookup(_cache, k).cached_at, now)
\* the mappings m and n agree on every key but k
SameBut(m, n, k) == Del(m, k) = Del(n, k)

\* C23: a search_spotify call that finds an unexpired entry for its key (a match
\* or the negative sentinel) makes no remote call, reports was_cached and leaves
\* the mapping and the pending counter as they were; a call that misses writes
\* one entry, under its own key, holding the match or the empty sentinel.
C23_Step ==
    \A i \in DOMAIN sr.tasks :
        /\ (sr.tasks[i].st = "queued" /\ sr'.tasks[i].st # "queued" /\ Unexpired(KeyOf(i))) =>
              /\ sr'.tasks[i].st = "done"
              /\ ~sr'.tasks[i].remote
              /\ sr'.tasks[i].fut.was_cached
              /\ sr'.tasks[i].raw = Lookup(_cache, KeyOf(i)).value
              /\ _cache' = _cache
              /\ _pending_writes' = _pending_writes
              /\ file' = file
        /\ (sr.tasks[i].st = "queued" /\ sr'.tasks[i].st = "searching") =>
              /\ SameBut(_cache, _cache', KeyOf(i))
              /\ ~Has(_cache', KeyOf(i))
              /\ _pending_writes' = _pending_writes
        /\ (sr.tasks[i].st = "searching" /\ sr'.tasks[i].st = "done") =>
              /\ sr'.tasks[i].remote
              /\ ~sr'.tasks[i].fut.was_cached
              /\ SameBut(_cache, _cache', KeyOf(i))
              /\ Len(_cache') <= Len(_cache) + 1
              /\ Has(_cache', KeyOf(i))
              /\ Lookup(_cache', KeyOf(i)) =
                    [key |-> KeyOf(i),
                     value |-> IF sr'.tasks[i].raw = NoneV THEN EmptyDict
                               ELSE sr'.tasks[i].raw,
                     cached_at |-> isoformat(now)]
C23_HitLeavesCacheAlone == [][C23_Step]_vars
\* a hit on a match and a hit on the sentinel, next to the miss that wrote it
C23_Witness ==
    \E i, j, n \in DOMAIN sr.tasks :
        /\ sr.tasks[i].st = "done" /\ sr.tasks[i].fut.was_cached /\ Truthy(sr.tasks[i].raw)
        /\ sr.tasks[j].st = "done" /\ sr.tasks[j].fut.was_cached
        /\ sr.tasks[j].raw = EmptyDict
        /\ sr.tasks[n].st = "done" /\ sr.tasks[n].remote /\ sr.tasks[n].raw = NoneV
        /\ Has(_cache, KeyOf(n)) /\ Lookup(_cache, KeyOf(n)).value = EmptyDict
        /\ _pending_writes = 1

\* C27: in one run on a cache that had no entry for a key, the clock standing
\* still, at most one of the entries sharing that key is searched remotely.
C27_OneRemotePerKey ==
    \A i, j \in DOMAIN sr.tasks :
        (/\ i # j
         /\ KeyOf(i) = KeyOf(j)
         /\ KeyOf(i) \notin sr.keys0
         /\ now = 0) => ~(sr.tasks[i].remote /\ sr.tasks[j].remote)

\* C28: when a search whose every sp.search call raised gave None, the negative
\* sentinel is in the cache under its key from then on for the TTL, and a
\* search_spotify call that looks into the cache within that time is a hit
\* that makes no remote call.
C28_FailureCached ==
    /\ \A k \in DOMAIN sr.failAt :
          (sr.failAt[k] >= 0 /\ now <= sr.failAt[k] + ttl_minutes) =>
              /\ Has(_cache, k)
              /\ Lookup(_cache, k).value = EmptyDict
              /\ Lookup(_cache, k).cached_at = isoformat(sr.failAt[k])
    /\ \A i \in DOMAIN sr.tasks :
          (sr.tasks[i].afterFail /\ sr.tasks[i].st # "queued") =>
              /\ sr.tasks[i].st = "done"
              /\ ~sr.tasks[i].remote
              /\ sr.tasks[i].fut.was_cached
              /\ sr.tasks[i].fut.result = NoneV
C28_Witness ==
    \E i, j \in DOMAIN sr.tasks :
        /\ i # j /\ KeyOf(i) = KeyOf(j)
        /\ sr.tasks[i].st = "done" /\ sr.tasks[i].remote /\ sr.tasks[i].failed
        /\ sr.tasks[i].raw = NoneV
        /\ sr.tasks[j].st = "done" /\ sr.tasks[j].afterFail /\ ~sr.tasks[j].remote
        /\ sr.tasks[j].fut.was_cached

(***************************************************************************)
(* fetch_with_proxy_rotation: what it caches (checked under SpecProxy)     *)
(***************************************************************************)
\* C29: when fetch_with_proxy_rotation has returned a body, in either round, the
\* cache holds the winning proxy under "ip:port" with the latency measured by
\* the validation that won and the timestamp of the clock at that moment; every
\* other key of the cache was there when the call began, with the entry it had
\* then. When it has returned without a body, it has added nothing.
C29_WinnerCached ==
    px.pc = "returned" =>
        IF px.ret.html # NoneV
        THEN LET key == make_key(px.ret.proxy.ip, px.ret.proxy.port)
             IN  /\ Has(_cache, key)
                 /\ \E i \in DOMAIN px.tasks :
                       /\ px.tasks[i].st = "done"
                       /\ px.tasks[i].proxy = px.ret.proxy
                       /\ px.tasks[i].result.html = px.ret.html
                       /\ Lookup(_cache, key) =
                             [key |-> key,
                              value |-> [speed_ms |-> px.tasks[i].resp.elapsed_ms],
                              cached_at |-> isoformat(now)]
                 /\ \A k \in KeysOf(_cache) \ {key} :
                       Has(px.cache0, k) /\ Lookup(_cache, k) = Lookup(px.cache0, k)
        ELSE \A k \in KeysOf(_cache) :
                 Has(px.cache0, k) /\ Lookup(_cache, k) = Lookup(px.cache0, k)
\* a fresh-round win after a cached round that failed, next to a validation that
\* succeeded too and was left unread; the winner's latency is the slower of the
\* two the model has
C29_Witness ==
    /\ px.pc = "returned" /\ px.round = "fresh" /\ px.ret.html # NoneV
    /\ px.nCached > 0
    /\ Lookup(_cache, make_key(px.ret.proxy.ip, px.ret.proxy.port)).value.speed_ms = 2
    /\ \E i \in DOMAIN px.tasks :
          /\ px.tasks[i].st = "done" /\ px.tasks[i].result.html # NoneV
          /\ px.tasks[i].proxy # px.ret.proxy
          /\ ~Has(_cache, make_key(px.tasks[i].proxy.ip, px.tasks[i].proxy.port))

(***************************************************************************)
(* The trending order (checked under SpecTrending)                         *)
(***************************************************************************)
Matched == SelectSeq(pf.results, found)
\* the matched entry a URI of the output stands for
EntryOf(uri) == CHOOSE r \in {Matched[i] : i \in 1..Len(Matched)} : r.track_uri = uri
\* its place in the input
PlaceOf(uri) == CHOOSE i \in 1..Len(Matched) : Matched[i].track_uri = uri
RankSpread ==
    MaxOf({Matched[i].rank : i \in 1..Len(Matched)})
        - MinOf({Matched[i].rank : i \in 1..Len(Matched)})
PopSpread ==
    MaxOf({Matched[i].popularity : i \in 1..Len(Matched)})
        - MinOf({Matched[i].popularity : i \in 1..Len(Matched)})
\* normalize(rank) + normalize(popularity) of r is at most that of q: the two sums
\* compared after multiplying by both spreads (1 standing for a spread of 0)
ScoreAtMost(r, q) ==
    LET dr == IF RankSpread = 0 THEN 1 ELSE RankSpread
        dp == IF PopSpread = 0 THEN 1 ELSE PopSpread
        nr(x) == IF RankSpread = 0 THEN 0
                 ELSE x.rank - MinOf({Matched[i].rank : i \in 1..Len(Matched)})
        np(x) == IF PopSpread = 0 THEN 0
                 ELSE x.popularity - MinOf({Matched[i].popularity : i \in 1..Len(Matched)})
    IN  nr(r) * dp + np(r) * dr <= nr(q) * dp + np(q) * dr

\* C24: the trending order lists the matched entries, each once and no other,
\* ascending in normalize(rank) + normalize(popularity); when all share one
\* popularity it is ascending in rank, when all share one rank ascending in
\* popularity, entries equal in that keeping their input order; when all share
\* both it is the input order.
C24_TrendingOrder ==
    (pf.pc = "done" /\ Matched # <<>>) =>
        /\ Len(pf.out) = Len(Matched)
        /\ {pf.out[i] : i \in 1..Len(pf.out)} = {Matched[i].track_uri : i \in 1..Len(Matched)}
        /\ \A i \in 1..Len(pf.out) : pf.out[i] # <<>>
        /\ \A i, j \in 1..Len(pf.out) :
              i < j =>
                /\ ScoreAtMost(EntryOf(pf.out[i]), EntryOf(pf.out[j]))
                /\ PopSpread = 0 =>
                      \/ EntryOf(pf.out[i]).rank < EntryOf(pf.out[j]).rank
                      \/ /\ EntryOf(pf.out[i]).rank = EntryOf(pf.out[j]).rank
                         /\ PlaceOf(pf.out[i]) < PlaceOf(pf.out[j])
                /\ RankSpread = 0 =>
                      \/ EntryOf(pf.out[i]).popularity < EntryOf(pf.out[j]).popularity
                      \/ /\ EntryOf(pf.out[i]).popularity = EntryOf(pf.out[j]).popularity
                         /\ PlaceOf(pf.out[i]) < PlaceOf(pf.out[j])
        /\ (RankSpread = 0 /\ PopSpread = 0) =>
              pf.out = [i \in 1..Len(Matched) |-> Matched[i].track_uri]
\* two matched entries come out in the reverse of their input order, an unmatched
\* one between them is left out
C24_Witness ==
    /\ pf.pc = "done" /\ Len(pf.results) = 3
    /\ ~found(pf.results[2]) /\ Len(Matched) = 2
    /\ pf.out = <<pf.results[3].track_uri, pf.results[1].track_uri>>
    /\ pf.results[3].rank = pf.results[1].rank
    /\ pf.results[3].popularity < pf.results[1].popularity

(***************************************************************************)
(* duration_similarity (checked under SpecDuration)                        *)
(***************************************************************************)
\* the seconds a chart duration text of the model stands for, None when it
\* stands for none
ChartSeconds(d) ==
    IF d \in {<<"3", ":", "0", "0">>, <<" ", "3", ":", "0", "0">>} THEN IntV(180)
    ELSE IF d = <<"0", ":", "0", "0">> \/ d = <<"0", ":", "0", ":", "0">> THEN IntV(0)
    ELSE IF d = <<"1", ":", "3", "0">> THEN IntV(90)
    ELSE IF d = <<"3", ":", "2", "0">> THEN IntV(200)
    ELSE IF d = <<"1", ":", "0", "2", ":", "0", "3">> THEN IntV(3723)
    ELSE IF d = <<"-", "1", ":", "3", "0">> THEN IntV(-30)
    ELSE NoneV
\* whole seconds of a catalog duration: floor(ms / 1000)
WholeSeconds(ms) == ms \div 1000

\* C25: duration_similarity gives 0.5 when the chart duration is empty, cannot
\* be parsed or is zero seconds, or when the catalog duration is under one
\* second; otherwise 1 - |a - b| / max(a, b), a the chart seconds and b the whole
\* seconds of the catalog duration, and 0 where that is negative. The result is
\* within [0, 1], and it is 1 when a = b.
C25_DurationSimilarity ==
    pf.pc = "done" =>
        LET sec == ChartSeconds(pf.zing_duration)
            a == sec.int
            b == WholeSeconds(pf.spotify_ms)
        IN  /\ pf.zing_sec = sec
            /\ 0 <= pf.out.num /\ pf.out.num <= pf.out.den /\ pf.out.den > 0
            /\ IF sec = NoneV THEN pf.out = Float(1, 2)
               ELSE IF a = 0 \/ pf.spotify_ms < 1000 THEN pf.out = Float(1, 2)
               ELSE /\ Max(a, b) > 0
                    /\ IF Max(a, b) - Abs(a - b) < 0 THEN pf.out.num = 0
                       ELSE pf.out.num * Max(a, b) = (Max(a, b) - Abs(a - b)) * pf.out.den
                    /\ a = b => pf.out.num = pf.out.den
\* "3:00" against 180000 ms
C25_Witness ==
    /\ pf.pc = "done"
    /\ pf.zing_duration = <<"3", ":", "0", "0">> /\ pf.spotify_ms = 180000
    /\ pf.out = Float(180, 180)

(***************************************************************************)
(* FileCache construction (checked under SpecLoad)                         *)
(***************************************************************************)
\* C22: constructed over a file that is missing, cannot be read or does not hold
\* a JSON text, the cache comes up empty without __init__ raising, and get, set,
\* keys and flush on it raise nothing.
C22_BadFileGivesEmptyCache ==
    ld.kind \in {"missing", "unreadable", "corrupt", "not_utf8"} =>
        /\ ld.pc # "raised"
        /\ ld.pc = "ready" =>
              /\ ld.is_dict
              /\ ld.loaded = <<>>
              /\ \A i \in 1..Len(ld.calls) : ld.calls[i].raised = NoneV

(***************************************************************************)
(* get_spotify_cache (checked under SpecSingleton)                         *)
(***************************************************************************)
\* C26: whatever the interleaving of the workers' first calls, one SpotifyCache
\* instance is constructed and every call returns that instance.
C26_OneInstance ==
    /\ gl.created <= 1
    /\ \A t, u \in 1..Callers :
          (gl.threads[t].pc = "done" /\ gl.threads[u].pc = "done") =>
              gl.threads[t].ret = gl.threads[u].ret

(***************************************************************************)
(* FileCache under concurrent callers (checked under SpecThreads)          *)
(***************************************************************************)
\* the object a snapshot describes
Restore(p) ==
    [cache |-> p.cache, pending |-> p.pending, file |-> p.file, fstat |-> p.fstat,
     wrote |-> FALSE, raised |-> FALSE]
\* what the call described by l gives when it runs alone on the object l.pre
Alone(l) ==
    IF l.op = "get" THEN get(Restore(l.pre), l.key, l.at)
    ELSE IF l.op = "get_with_metadata" THEN get_with_metadata(Restore(l.pre), l.key, l.at)
    ELSE IF l.op = "set"
    THEN [ret |-> NoneV, self |-> set(Restore(l.pre), l.key, [v |-> 1], l.at)]
    ELSE IF l.op = "remove_proxy"
    THEN [ret |-> NoneV, self |-> remove_proxy(Restore(l.pre), l.key)]
    ELSE IF l.op = "clear" THEN [ret |-> NoneV, self |-> clear(Restore(l.pre))]
    ELSE IF l.op = "keys"
    THEN [ret |-> keys(Restore(l.pre), l.at), self |-> Restore(l.pre)]
    ELSE [ret |-> NoneV, self |-> flush(Restore(l.pre))]
InBody(t) == th.threads[t].pc \notin {"idle", "wait"}

\* C21: at most one thread is inside a method body; a call that has returned
\* has returned what, and left the object as, the same call gives when it runs
\* alone on the object found when it took the lock; while no thread is inside,
\* the pending counter is the number of set calls returned since it was last
\* reset.
C21_Serialisable ==
    /\ \A t, u \in 1..Threads : (InBody(t) /\ InBody(u)) => t = u
    /\ \A t \in 1..Threads : InBody(t) => th.lock = t
    /\ th.last # NoneV =>
          /\ th.last.post = Snapshot(Alone(th.last).self)
          /\ th.last.ret = Alone(th.last).ret
    /\ th.lock = 0 => _pending_writes = setCalls
\* a get that deleted an expired entry has returned; the set called while the
\* get held the lock is now inside, between the read and the write of the counter
C21_Witness ==
    /\ th.last # NoneV /\ th.last.op = "get"
    /\ th.last.post.cache # th.last.pre.cache
    /\ \E t \in 1..Threads :
          /\ th.threads[t].op = "set" /\ th.threads[t].pc = "incr_write"
          /\ th.threads[t].pre = th.last.post

\* C31: an attempt k that ends in a rate limit is followed by a sleep of
\* SPOTIFY_RETRY_DELAY * 2^k; an attempt that ends in any other error, attempts
\* remaining, by a sleep of SPOTIFY_RETRY_DELAY and the next attempt; an attempt
\* that succeeds by no sleep.
C31_Backoff ==
    sg.pc \in {"call", "done"} =>
        \A i \in 1..Len(sg.calls) :
            LET c == sg.calls[i]
            IN  /\ c.kind = "rate" => c.sleep = SPOTIFY_RETRY_DELAY * 2 ^ c.attempt
                /\ (c.kind \in {"error", "spotify_error"}
                      /\ c.attempt < SPOTIFY_RETRY_ATTEMPTS - 1) =>
                        c.sleep = SPOTIFY_RETRY_DELAY /\ c.out = "continue"
                /\ c.kind = "ok" => c.sleep = 0

\* C32: remove_proxy of a key that is present, and clear, leave the file equal
\* to the in-memory mapping when they return (the key gone, the mapping empty);
\* remove_proxy of a key that is absent changes neither the mapping nor the file.
C32_Step ==
    /\ (obs'.op = "remove_proxy" /\ Has(_cache, obs'.key)) =>
            /\ _cache' = Del(_cache, obs'.key)
            /\ file' = _cache' /\ fstat' = "ok"
    /\ (obs'.op = "remove_proxy" /\ ~Has(_cache, obs'.key)) =>
            UNCHANGED <<_cache, _pending_writes, file, fstat>>
    /\ obs'.op = "clear" =>
            /\ _cache' = <<>>
            /\ file' = _cache' /\ fstat' = "ok"
C32_ImmediatePersist == [][C32_Step]_vars
\* a key set but not yet persisted is removed, another key staying in the mapping
C32_Witness ==
    /\ obs.op = "remove_proxy" /\ obs.preHad /\ obs.prePending > 0
    /\ _cache # <<>> /\ file = _cache

(***************************************************************************)
(* FileCache with a failing cache file (checked under SpecDisk)            *)
(***************************************************************************)
\* C33: a call of set, flush, clear or remove_proxy made while the cache file
\* cannot be written returns without raising and the in-memory mapping reflects
\* it: the key set holds the value given, clear leaves the mapping empty,
\* remove_proxy leaves the key absent, flush leaves the mapping as it was, and a
\* get that follows a set of the same key returns the value set.
C33_Step ==
    (~diskOk /\ ~diskOk') =>
        /\ ~obs'.raised
        /\ obs'.op = "set" =>
                /\ Has(_cache', obs'.key)
                /\ Lookup(_cache', obs'.key).value = obs'.arg
                /\ \A k \in KeysOf(_cache) \ {obs'.key} :
                       Has(_cache', k) /\ Lookup(_cache', k) = Lookup(_cache, k)
        /\ obs'.op = "clear" => _cache' = <<>>
        /\ obs'.op = "remove_proxy" => _cache' = Del(_cache, obs'.key)
        /\ obs'.op = "flush" => _cache' = _cache
        /\ (obs'.op = "get" /\ obs'.prevSet # NoneV) => obs'.ret = obs'.prevSet
C33_WriteFailureSwallowed == [][C33_Step]_vars
\* the set that fills the batch could not write the file, and the get after it
\* returns the value set
C33_Witness ==
    /\ ~diskOk
    /\ obs.op = "get" /\ obs.prevSet # NoneV /\ obs.ret = obs.prevSet
    /\ _pending_writes = 0 /\ setCalls = 0 /\ obs.preSetCalls = 0
    /\ ~Has(file, obs.key)

\* C34: after every completed call the pending-write counter is at least 0 and
\* below batch_size, and it is 0 right after a set or a flush that has rewritten
\* the file.
C34_PendingBounded ==
    /\ 0 <= _pending_writes /\ _pending_writes < batch_size
    /\ (obs.op \in {"set", "flush"} /\ obs.wrote) => _pending_writes = 0
\* a flush that found writes pending, after clear and remove_proxy have left the
\* counter where it was
C34_Witness ==
    /\ obs.op = "flush" /\ obs.wrote /\ obs.prePending = batch_size - 1
    /\ _pending_writes = 0 /\ _cache = <<>>

(***************************************************************************)
(* search_spotify_single: queries and choice (checked under SpecSingle)    *)
(***************************************************************************)
\* C35 as stated: every entry gets between 2 and 3 query strings, ordered from
\* the strictest to the loosest, the last being the title alone.
C35_Original ==
    sg.pc \in {"call", "done"} =>
        /\ Len(sg.search_queries) \in 2..3
        /\ \A i \in 1..(Len(sg.search_queries) - 1) :
              sg.search_queries[i].strategy < sg.search_queries[i + 1].strategy
        /\ sg.search_queries[Len(sg.search_queries)] = Query(3, sg.song.name)

\* C35: an entry with at least one artist gets exactly 3 query strings and an
\* entry with none exactly 1; they are ordered from the strictest to the loosest
\* and the last is the title alone.
C35_QueryCount ==
    sg.pc \in {"call", "done"} =>
        /\ Len(sg.search_queries) = (IF sg.song.artist_list = <<>> THEN 1 ELSE 3)
        /\ \A i \in 1..(Len(sg.search_queries) - 1) :
              sg.search_queries[i].strategy < sg.search_queries[i + 1].strategy
        /\ sg.search_queries[Len(sg.search_queries)] = Query(3, sg.song.name)
\* the entry without artists has been searched with its one query
C35_Witness ==
    /\ sg.pc = "done" /\ sg.song.artist_list = <<>>
    /\ sg.search_queries = <<Query(3, sg.song.name)>>
    /\ \A i \in 1..Len(sg.calls) : sg.calls[i].q = sg.song.name

SameProxy(p, q) == p.ip = q.ip /\ p.port = q.port
Usable(p) == p.ip # "" /\ p.port # ""
\* where in the list all the first record of p's ip and port stands
FirstAt(all, p) ==
    CHOOSE i \in 1..Len(all) :
        SameProxy(all[i], p) /\ \A j \in 1..(i - 1) : ~SameProxy(all[j], p)

\* C37: the list returned holds records of the sources that answered and no
\* others (a source that failed adds nothing, the other's records still come):
\* for every ip and port met with both non-empty, the first record in completion
\* order, once, in the order of these first records; no record without ip or
\* without port.
C37_UniqueProxies ==
    pf.pc = "done" =>
        LET all == pf.all_proxies
            out == pf.out
        IN  /\ \A i \in 1..Len(all) :
                  /\ all[i].source = "proxyscrape" => pf.proxyscrape.ok
                  /\ all[i].source = "free-proxy-list" => pf.free_proxy_list.ok
            /\ Len(all) = Len(pf.proxyscrape.records) + Len(pf.free_proxy_list.records)
            /\ \A i \in 1..Len(out) :
                  /\ Usable(out[i])
                  /\ \E k \in 1..Len(all) : SameProxy(all[k], out[i])
                  /\ out[i] = all[FirstAt(all, out[i])]
            /\ \A i, j \in 1..Len(out) :
                  i < j => FirstAt(all, out[i]) < FirstAt(all, out[j])
            /\ \A k \in 1..Len(all) :
                  Usable(all[k]) => \E i \in 1..Len(out) : SameProxy(out[i], all[k])
\* both sources list one proxy, free-proxy-list answering first, next to a
\* record without ip or port
C37_Witness ==
    /\ pf.pc = "done" /\ ~pf.aFirst
    /\ Len(pf.out) = 1 /\ pf.out[1].source = "free-proxy-list"
    /\ \E k \in 1..Len(pf.all_proxies) :
          pf.all_proxies[k].source = "proxyscrape" /\ SameProxy(pf.all_proxies[k], pf.out[1])
    /\ \E k \in 1..Len(pf.all_proxies) : ~Usable(pf.all_proxies[k])

(***************************************************************************)
(* fetch_with_proxy_rotation: the fresh round (checked under SpecProxy)    *)
(***************************************************************************)
\* C38: the fresh round submits the first min(MAX_PROXY_TRIES, n) of the n
\* proxies fetch_vietnam_proxies returned, in their order, and nothing else: at
\* most MAX_PROXY_TRIES validations, none of a proxy beyond that prefix.
C38_FreshPrefix ==
    (px.pc \in {"fresh_loop", "returned"} /\ px.round = "fresh") =>
        /\ Len(px.tasks) <= MAX_PROXY_TRIES
        /\ Len(px.tasks) = Min(MAX_PROXY_TRIES, Len(px.proxies))
        /\ \A i \in 1..Len(px.tasks) : px.tasks[i].proxy = px.proxies[i]
        /\ \A i \in (Len(px.tasks) + 1)..Len(px.proxies) :
              \A k \in 1..Len(px.tasks) : px.tasks[k].proxy # px.proxies[i]
\* more proxies fetched than are tried, every validation of the round failed
C38_Witness ==
    /\ px.pc = "returned" /\ px.round = "fresh"
    /\ Len(px.proxies) > MAX_PROXY_TRIES
    /\ Len(px.tasks) = MAX_PROXY_TRIES
    /\ \A i \in 1..Len(px.tasks) : px.tasks[i].st = "done"
    /\ px.ret.html = NoneV

(***************************************************************************)
(* update_playlist (checked under SpecPlaylist)                            *)
(***************************************************************************)
\* the URIs of track_uris that are not empty, in order
Kept(track_uris) == SelectSeq(track_uris, LAMBDA uri : Len(uri) > 0)
\* the URIs the calls carried, one call after the other
RECURSIVE Sent(_)
Sent(calls) == IF calls = <<>> THEN <<>> ELSE Head(calls).uris \o Sent(Tail(calls))

\* C39: with a non-empty URI in track_uris the playlist ends as the non-empty
\* URIs in order: one replace call carries the first PLAYLIST_BATCH_SIZE of
\* them (all, when there are fewer), add calls carry the rest in consecutive
\* batches of PLAYLIST_BATCH_SIZE (the last possibly shorter), and the count
\* returned is their number; with none, no remote call is made, the playlist is
\* left alone and 0 is returned.
C39_PlaylistContent ==
    pf.pc = "done" =>
        LET kept == Kept(pf.track_uris)
            n == Len(pf.calls)
        IN  IF kept = <<>>
            THEN pf.calls = <<>> /\ pf.ret = 0 /\ pf.playlist = pf.old
            ELSE /\ pf.playlist = kept
                 /\ pf.ret = Len(kept)
                 /\ Sent(pf.calls) = kept
                 /\ n = (Len(kept) + PLAYLIST_BATCH_SIZE - 1) \div PLAYLIST_BATCH_SIZE
                 /\ \A i \in 1..n :
                       /\ pf.calls[i].api = (IF i = 1 THEN "playlist_replace_items"
                                             ELSE "playlist_add_items")
                       /\ Len(pf.calls[i].uris) <= PLAYLIST_BATCH_SIZE
                       /\ i < n => Len(pf.calls[i].uris) = PLAYLIST_BATCH_SIZE
\* a playlist with tracks gets more than two batches, empty URIs left out
C39_Witness ==
    /\ pf.pc = "done" /\ pf.old # <<>>
    /\ Len(pf.calls) > 2
    /\ Len(pf.calls[Len(pf.calls)].uris) < PLAYLIST_BATCH_SIZE
    /\ pf.ret < Len(pf.track_uris)

(***************************************************************************)
(* fetch_with_proxy_rotation returns (checked under SpecProxyLive)         *)
(***************************************************************************)
\* C40: whatever the cache holds, whatever the sources list and however the
\* validations end, fetch_with_proxy_rotation returns; once a validation has
\* succeeded it returns whether or not the validations still running ever end.
C40_Returns == <>(px.pc = "returned")
\* returned with a page while a validation is still running
C40_Witness ==
    /\ px.pc = "returned" /\ HtmlTruthy(px.ret.html)
    /\ NumRunning(px.tasks) > 0
====
